---- MODULE Spec2Model ----
(***************************************************************************)
(* A model of aptos-script-compose (crates/aptos-script-compose/src/main.rs)*)
(* : the payload parser, the step resolver, the type resolver, the literal *)
(* encoders and the composer driver of `run`.                              *)
(*                                                                         *)
(* Text is modelled as a sequence of one-character strings, so that the    *)
(* scanning, trimming and parsing code is modelled by what it does.        *)
(* Indices into `chars` are 0-based as in the Rust source; chars[i + 1] is *)
(* the TLA+ element for the Rust chars[i].                                 *)
(*                                                                         *)
(* Specifications: SpecSubst (substitute_type_parameters), SpecParams      *)
(* (resolve_function_params), SpecResolve (resolve_steps), SpecParse       *)
(* (parse_steps_payload), SpecEncode (the literal encoders), SpecCollect   *)
(* (collect_required_modules) and Spec (run, against every answer of the   *)
(* node and of the composition engine).                                    *)
(***************************************************************************)
EXTENDS Integers, Sequences, FiniteSets, TLC

VARIABLES
    pc,             \* position of the specification's process
    fn_in,          \* the arguments of the function under study
    fn_out,         \* what it returned
    payload_steps,  \* resolve_steps: the StepInputs read so far
    resolved,       \* resolve_steps: `resolved`, the ResolvedSteps pushed
    labels,         \* resolve_steps: `labels`, label -> index
    err,            \* the error the process ended with, if any
    stdin,          \* run: the JSON document on standard input
    cli,            \* run: the command-line flags
    required_modules, \* run: the BTreeSet of module ids, in iteration order
    modules,        \* run: `modules`, module id -> ModuleInfo
    fetched,        \* the module ids passed to fetch_module_info, in order
    stored,         \* the module ids whose bytecode store_module took, in order
    step_index,     \* run: the number of steps the driver loop has finished
    expected_params, \* run: `expected_params` of the step under way
    call_args,      \* run: `args`, the CallArguments of the step under way
    returns_by_label, \* run: `returns_by_label`
    payload_arguments, \* run: `payload_arguments`
    calls,          \* the add_batched_call invocations, in order
    script,         \* what generate_batched_calls returned
    output          \* what was printed on standard output

fnVars == <<fn_in, fn_out>>
resolveVars == <<payload_steps, resolved, labels, err>>
runVars ==
    <<stdin, cli, required_modules, modules, fetched, stored, step_index,
      expected_params, call_args, returns_by_label, payload_arguments, calls,
      script, output>>
vars == <<pc, fn_in, fn_out, payload_steps, resolved, labels, err, runVars>>

(***************************************************************************)
(* Bounds of the model.                                                    *)
(***************************************************************************)
MaxParamLen == 4
MaxTypeArgs == 2
MaxSteps == 2
MaxArgs == 1

(***************************************************************************)
(* Option / Result values.                                                 *)
(***************************************************************************)
None == [some |-> FALSE]
Some(v) == [some |-> TRUE, v |-> v]
Ok(v) == [ok |-> TRUE, v |-> v]
Err(e) == [ok |-> FALSE, e |-> e]

\* The variables a specification does not use stay at these values.
FnIdle == fn_in = None /\ fn_out = None
ResolveIdle ==
    /\ payload_steps = <<>>
    /\ resolved = <<>>
    /\ labels = <<>>
    /\ err = None
RunIdle ==
    /\ stdin = None
    /\ cli = None
    /\ required_modules = <<>>
    /\ modules = <<>>
    /\ fetched = <<>>
    /\ stored = <<>>
    /\ step_index = 0
    /\ expected_params = <<>>
    /\ call_args = <<>>
    /\ returns_by_label = <<>>
    /\ payload_arguments = <<>>
    /\ calls = <<>>
    /\ script = None
    /\ output = None

(***************************************************************************)
(* Characters and text.                                                    *)
(***************************************************************************)
AsciiDigits == {"0", "1", "2", "3", "4", "5", "6", "7", "8", "9"}
AsciiLetters ==
    {"a", "b", "c", "d", "e", "f", "g", "h", "i", "j", "k", "l", "m",
     "n", "o", "p", "q", "r", "s", "t", "u", "v", "w", "x", "y", "z",
     "A", "B", "C", "D", "E", "F", "G", "H", "I", "J", "K", "L", "M",
     "N", "O", "P", "Q", "R", "S", "T", "U", "V", "W", "X", "Y", "Z"}

is_ascii_digit(ch) == ch \in AsciiDigits

DigitValue(ch) ==
    CASE ch = "0" -> 0 [] ch = "1" -> 1 [] ch = "2" -> 2 [] ch = "3" -> 3
      [] ch = "4" -> 4 [] ch = "5" -> 5 [] ch = "6" -> 6 [] ch = "7" -> 7
      [] ch = "8" -> 8 [] ch = "9" -> 9

\* Strings of at most n characters over an alphabet.
StringsUpTo(alphabet, n) == UNION {[1..k -> alphabet] : k \in 0..n}

\* Sequences of at most n elements of a set.
ListsUpTo(S, n) == UNION {[1..k -> S] : k \in 0..n}

RECURSIVE Concat(_)
Concat(pieces) ==
    IF pieces = <<>> THEN <<>> ELSE Head(pieces) \o Concat(Tail(pieces))

(***************************************************************************)
(* 4.5 Type resolver: generic placeholder substitution.                    *)
(***************************************************************************)
is_type_param_ident_char(ch) ==
    ch \in AsciiLetters \/ ch \in AsciiDigits \/ ch = "_"

\* The `while chars.get(end).is_some_and(char::is_ascii_digit)` loop.
RECURSIVE DigitRunEnd(_, _)
DigitRunEnd(chars, end) ==
    IF end < Len(chars) /\ is_ascii_digit(chars[end + 1])
    THEN DigitRunEnd(chars, end + 1)
    ELSE end

\* Mutant: the check of the character before `T` is dropped.
type_param_placeholder_span_NoPrevCheck(chars, start) ==
    IF ~(start < Len(chars)) \/ chars[start + 1] # "T" THEN None
    ELSE IF ~(start + 1 < Len(chars) /\ is_ascii_digit(chars[start + 2])) THEN None
    ELSE LET end == DigitRunEnd(chars, start + 1)
             next_ok == end = Len(chars) \/ ~is_type_param_ident_char(chars[end + 1])
         IN  IF ~next_ok THEN None ELSE Some(<<start + 1, end>>)

type_param_placeholder_span(chars, start) ==
    IF ~(start < Len(chars)) \/ chars[start + 1] # "T" THEN None
    ELSE IF ~(start + 1 < Len(chars) /\ is_ascii_digit(chars[start + 2])) THEN None
    ELSE LET prev_ok == start = 0 \/ ~is_type_param_ident_char(chars[start])
         IN  IF ~prev_ok THEN None
             ELSE LET end == DigitRunEnd(chars, start + 1)
                      next_ok == end = Len(chars)
                                   \/ ~is_type_param_ident_char(chars[end + 1])
                  IN  IF ~next_ok THEN None ELSE Some(<<start + 1, end>>)

\* digits.parse::<usize>().ok(): the decimal value of a non-empty digit run.
\* A run of more than 19 digits overflows usize and gives None; a run of 10
\* to 19 digits gives an index no type-argument list reaches, so for the
\* lookup that follows it is None as well.
RECURSIVE DecimalValue(_)
DecimalValue(digits) ==
    IF digits = <<>> THEN 0
    ELSE DecimalValue(SubSeq(digits, 1, Len(digits) - 1)) * 10
         + DigitValue(digits[Len(digits)])

\* index.and_then(|value| type_arguments.get(value))
TypeArgumentAt(digits, type_arguments) ==
    IF Len(digits) >= 10 THEN None
    ELSE LET value == DecimalValue(digits)
         IN  IF value < Len(type_arguments)
             THEN Some(type_arguments[value + 1])
             ELSE None

RECURSIVE SubstituteLoop(_, _, _, _)
SubstituteLoop(chars, type_arguments, i, result) ==
    IF ~(i < Len(chars)) THEN result
    ELSE LET span == type_param_placeholder_span(chars, i)
         IN  IF span.some
             THEN LET digits_start == span.v[1]
                      end == span.v[2]
                      type_arg == TypeArgumentAt(SubSeq(chars, digits_start + 1, end),
                                                 type_arguments)
                  IN  SubstituteLoop(chars, type_arguments, end,
                          IF type_arg.some
                          THEN result \o type_arg.v
                          ELSE result \o SubSeq(chars, i + 1, end))
             ELSE SubstituteLoop(chars, type_arguments, i + 1,
                                 Append(result, chars[i + 1]))

substitute_type_parameters(param, type_arguments) ==
    SubstituteLoop(param, type_arguments, 0, <<>>)

RECURSIVE ContainsLoop(_, _)
ContainsLoop(chars, i) ==
    IF ~(i < Len(chars)) THEN FALSE
    ELSE LET span == type_param_placeholder_span(chars, i)
         IN  IF span.some
             THEN IF span.v[2] > i THEN TRUE ELSE ContainsLoop(chars, span.v[2])
             ELSE ContainsLoop(chars, i + 1)

contains_unresolved_type_param(param) == ContainsLoop(param, 0)

(***************************************************************************)
(* SpecSubst: substitute_type_parameters applied to every parameter string *)
(* over ParamAlphabet and every list of type arguments of the catalogue.   *)
(***************************************************************************)
ParamAlphabet == {"T", "0", "1", "a", "<"}

TA_u8 == <<"u", "8">>
TA_T1 == <<"T", "1">>
TA_T0Coin == <<"0", "x", "1", ":", ":", "m", "y", ":", ":", "T", "0", "C", "o", "i", "n">>

TA_Coin == <<"0", "x", "1", ":", ":", "a", "a", ":", ":", "C", "o", "i", "n">>
TA_vector_u8 == <<"v", "e", "c", "t", "o", "r", "<", "u", "8", ">">>
TA_vector_T0Coin == <<"v", "e", "c", "t", "o", "r", "<", "0", "x", "1", ":", ":", "m",
        "y", ":", ":", "T", "0", "C", "o", "i", "n", ">">>
TA_Box_Item == <<"0", "x", "1", ":", ":", "m", ":", ":", "B", "o", "x", "<", "0", "x",
        "2", ":", ":", "n", ":", ":", "I", "t", "e", "m", ">">>
TA_vector_Pair == <<"v", "e", "c", "t", "o", "r", "<", "0", "x", "3", ":", ":", "k", ":",
        ":", "P", "a", "i", "r", "<", "u", "8", ",", " ", "0", "x", "2", ":", ":", "n",
        ":", ":", "I", "t", "e", "m", ">", ">">>

\* A struct whose own name has the form of a placeholder token.
TA_T0 == <<"0", "x", "1", ":", ":", "m", ":", ":", "T", "0">>

TypeArgCatalogue == {TA_u8, TA_T1, TA_T0Coin}

SubstInit ==
    /\ pc = "subst_start"
    /\ fn_in \in [param : StringsUpTo(ParamAlphabet, MaxParamLen),
                  type_arguments : ListsUpTo(TypeArgCatalogue, MaxTypeArgs)]
    /\ fn_out = None
    /\ ResolveIdle
    /\ RunIdle

Substitute ==
    /\ pc = "subst_start"
    /\ fn_out' = Some(substitute_type_parameters(fn_in.param, fn_in.type_arguments))
    /\ pc' = "subst_done"
    /\ UNCHANGED <<fn_in, resolveVars, runVars>>

SubstNext == Substitute

SpecSubst == SubstInit /\ [][SubstNext]_vars

(***************************************************************************)
(* C6: substitute_type_parameters equals the reference substitution: every *)
(* token T<digits> whose neighbours are not identifier characters is       *)
(* replaced by the type argument of that index when there is one and       *)
(* copied otherwise, every other character is copied, and inserted text is *)
(* not rescanned.                                                          *)
(***************************************************************************)
\* p[s..e] (1-based) is a placeholder token: `T`, then the maximal digit run.
IsToken(p, s, e) ==
    /\ 1 <= s /\ s < e /\ e <= Len(p)
    /\ p[s] = "T"
    /\ \A k \in (s + 1)..e : p[k] \in AsciiDigits
    /\ (e < Len(p) => p[e + 1] \notin AsciiDigits)
    /\ (s > 1 => ~is_type_param_ident_char(p[s - 1]))
    /\ (e < Len(p) => ~is_type_param_ident_char(p[e + 1]))

TokenIndex(p, s, e) ==
    LET term[k \in s..e] ==
            IF k = s THEN 0 ELSE term[k - 1] * 10 + DigitValue(p[k])
    IN  term[e]

\* What position k of p contributes to the result.
ReferencePiece(p, T, k) ==
    IF \E e \in 1..Len(p) : IsToken(p, k, e)
    THEN LET e == CHOOSE x \in 1..Len(p) : IsToken(p, k, x)
             i == TokenIndex(p, k, e)
         IN  IF i < Len(T) THEN T[i + 1] ELSE SubSeq(p, k, e)
    ELSE IF \E s \in 1..Len(p), e \in 1..Len(p) : IsToken(p, s, e) /\ s < k /\ k <= e
    THEN <<>>
    ELSE <<p[k]>>

ReferenceSubstitution(p, T) == Concat([k \in 1..Len(p) |-> ReferencePiece(p, T, k)])

C6_SubstituteEqualsReference ==
    pc = "subst_done" =>
        fn_out.v = ReferenceSubstitution(fn_in.param, fn_in.type_arguments)

\* A replaced token whose inserted text `T1` is itself shaped like a token and
\* stays, next to a `T` that is no token.
C6_Witness ==
    /\ pc = "subst_done"
    /\ fn_in.param = <<"T", "0", "<", "T">>
    /\ fn_in.type_arguments = <<TA_T1, TA_u8>>
    /\ fn_out.v = <<"T", "1", "<", "T">>

(***************************************************************************)
(* 4.5 Type resolver: resolve_function_params.  A ModuleInfo's `functions` *)
(* is a function from names to parameter lists; a ResolvedStep is a record *)
(* [label, function_id : [module_id, function], type_arguments, args].     *)
(***************************************************************************)
RECURSIVE ResolveParamsLoop(_, _, _, _)
ResolveParamsLoop(params, type_arguments, n, result) ==
    IF n > Len(params) THEN Ok(result)
    ELSE LET param == params[n]
             substituted == substitute_type_parameters(param, type_arguments)
         IN  IF contains_unresolved_type_param(substituted)
             THEN Err([kind |-> "unresolved_generic_placeholders",
                       param |-> param,
                       type_arguments |-> type_arguments])
             ELSE ResolveParamsLoop(params, type_arguments, n + 1,
                                    Append(result, substituted))

\* Mutant: the scan for remaining placeholders is skipped.
resolve_function_params_NoScan(step, module_info) ==
    IF step.function_id.function \notin DOMAIN module_info.functions
    THEN Err([kind |-> "function_not_found",
              function |-> step.function_id.function,
              module_id |-> step.function_id.module_id])
    ELSE Ok([n \in 1..Len(module_info.functions[step.function_id.function]) |->
                substitute_type_parameters(
                    module_info.functions[step.function_id.function][n],
                    step.type_arguments)])

resolve_function_params(step, module_info) ==
    IF step.function_id.function \notin DOMAIN module_info.functions
    THEN Err([kind |-> "function_not_found",
              function |-> step.function_id.function,
              module_id |-> step.function_id.module_id])
    ELSE ResolveParamsLoop(module_info.functions[step.function_id.function],
                           step.type_arguments, 1, <<>>)

(***************************************************************************)
(* SpecParams: resolve_function_params applied to a callee whose declared  *)
(* parameters hold one string over ParamAlphabet, alone or beside a        *)
(* parameter of the catalogue, and to a callee missing from the ABI.       *)
(***************************************************************************)
P_T0 == <<"T", "0">>
P_u64 == <<"u", "6", "4">>
P_ref_signer == <<"&", "s", "i", "g", "n", "e", "r">>
ParamCatalogue == {P_T0, P_u64, P_ref_signer}

FN_f == <<"f">>
FN_g == <<"g">>
MODULE_0x1_m == [address |-> <<"1">>, name |-> <<"m">>]

ParamLists ==
    LET free == StringsUpTo(ParamAlphabet, MaxParamLen - 1)
    IN  {<<>>} \cup {<<p>> : p \in free}
        \cup {<<q, p>> : q \in ParamCatalogue, p \in free}
        \cup {<<p, q>> : q \in ParamCatalogue, p \in free}

\* Type-argument lists that name the struct 0x1::m::T0.
StructTypeArgumentLists == {<<TA_T0>>, <<TA_u8, TA_T0>>}

ParamsInit ==
    /\ pc = "params_start"
    /\ \E params \in ParamLists,
          type_arguments \in ListsUpTo(TypeArgCatalogue, MaxTypeArgs)
                                \cup StructTypeArgumentLists,
          function \in {FN_f, FN_g} :
            fn_in = [step |-> [label |-> <<"s", "1">>,
                               function_id |-> [module_id |-> MODULE_0x1_m,
                                                function |-> function],
                               type_arguments |-> type_arguments,
                               args |-> <<>>],
                     module_info |-> [bytecode |-> <<>>,
                                      functions |-> (FN_f :> params)]]
    /\ fn_out = None
    /\ ResolveIdle
    /\ RunIdle

ResolveFunctionParams ==
    /\ pc = "params_start"
    /\ fn_out' = Some(resolve_function_params(fn_in.step, fn_in.module_info))
    /\ pc' = "params_done"
    /\ UNCHANGED <<fn_in, resolveVars, runVars>>

ParamsNext == ResolveFunctionParams

SpecParams == ParamsInit /\ [][ParamsNext]_vars

\* Some token of text p; some token of p whose index no type argument has.
HasToken(p) == \E s \in 1..Len(p), e \in 1..Len(p) : IsToken(p, s, e)
HasTokenBeyond(p, k) ==
    \E s \in 1..Len(p), e \in 1..Len(p) : IsToken(p, s, e) /\ TokenIndex(p, s, e) >= k

DeclaredParams == fn_in.module_info.functions[fn_in.step.function_id.function]

(***************************************************************************)
(* C7: resolve_function_params fails whenever a declared parameter, after  *)
(* substitution with the step's type arguments, still holds a placeholder  *)
(* token, and in particular whenever a declared parameter holds a token    *)
(* T<i> with i at or beyond the number of type arguments.                  *)
(***************************************************************************)
C7_UnresolvedPlaceholderFails ==
    (pc = "params_done"
     /\ fn_in.step.function_id.function \in DOMAIN fn_in.module_info.functions) =>
        \A n \in 1..Len(DeclaredParams) :
            (\/ HasToken(ReferenceSubstitution(DeclaredParams[n],
                                               fn_in.step.type_arguments))
             \/ HasTokenBeyond(DeclaredParams[n], Len(fn_in.step.type_arguments)))
            => ~fn_out.v.ok

\* T1 declared after a resolvable T0, with one type argument supplied.
C7_Witness ==
    /\ pc = "params_done"
    /\ fn_in.step.function_id.function = FN_f
    /\ DeclaredParams = <<P_T0, <<"<", "T", "1">> >>
    /\ fn_in.step.type_arguments = <<TA_u8>>
    /\ ~fn_out.v.ok
    /\ fn_out.v.e.kind = "unresolved_generic_placeholders"
    /\ fn_out.v.e.param = <<"<", "T", "1">>

(***************************************************************************)
(* 4.2 Step resolver.                                                      *)
(*                                                                         *)
(* An ArgInput is [kind |-> "Signer"], [kind |-> "Literal", value |-> v]   *)
(* or [kind |-> "Ref", step |-> text, return_index |-> n]; a StepInput is  *)
(* [label, function, type_arguments, args].  `labels` (a HashMap) is a     *)
(* function from label text to index.                                      *)
(***************************************************************************)
WhitespaceChars == {" ", "\t", "\n", "\r"}

\* str::trim
RECURSIVE TrimStart(_)
TrimStart(text) ==
    IF text # <<>> /\ Head(text) \in WhitespaceChars
    THEN TrimStart(Tail(text))
    ELSE text

RECURSIVE TrimEnd(_)
TrimEnd(text) ==
    IF text # <<>> /\ text[Len(text)] \in WhitespaceChars
    THEN TrimEnd(SubSeq(text, 1, Len(text) - 1))
    ELSE text

Trim(text) == TrimEnd(TrimStart(text))

\* str::split("::")
RECURSIVE SplitDoubleColon(_)
SplitDoubleColon(text) ==
    LET hits == {i \in 1..(Len(text) - 1) : text[i] = ":" /\ text[i + 1] = ":"}
    IN  IF hits = {} THEN <<text>>
        ELSE LET i == CHOOSE x \in hits : \A y \in hits : x <= y
             IN  <<SubSeq(text, 1, i - 1)>>
                 \o SplitDoubleColon(SubSeq(text, i + 2, Len(text)))

HexDigits == AsciiDigits \cup {"a", "b", "c", "d", "e", "f",
                               "A", "B", "C", "D", "E", "F"}

LowerHex(ch) ==
    CASE ch = "A" -> "a" [] ch = "B" -> "b" [] ch = "C" -> "c"
      [] ch = "D" -> "d" [] ch = "E" -> "e" [] ch = "F" -> "f"
      [] OTHER -> ch

StripLeadingZeros(digits) ==
    LET n == Len(digits)
        nonzero == {i \in 1..n : digits[i] # "0"}
        first == IF nonzero = {} THEN n
                 ELSE CHOOSE i \in nonzero : \A j \in nonzero : i <= j
    IN  IF n = 0 THEN digits ELSE SubSeq(digits, first, n)

\* An AccountAddress is held as its short hex digits (lower case, no leading
\* zeros): what to_hex_literal prints after `0x`.
\* The address of ModuleId::from_str: `0x` and 1 to 64 hex digits.
ModuleAddress_from_str(text) ==
    IF /\ Len(text) >= 3 /\ Len(text) <= 66
       /\ text[1] = "0" /\ text[2] = "x"
       /\ \A i \in 3..Len(text) : text[i] \in HexDigits
    THEN Ok(StripLeadingZeros([i \in 1..(Len(text) - 2) |-> LowerHex(text[i + 2])]))
    ELSE Err("invalid_address")

\* Identifier::new: a letter or `_` first, then letters, digits and `_`;
\* `_` alone is no identifier.
IsValidIdentifier(text) ==
    /\ text # <<>>
    /\ text[1] \in AsciiLetters \cup {"_"}
    /\ \A i \in 2..Len(text) : text[i] \in AsciiLetters \cup AsciiDigits \cup {"_"}
    /\ text # <<"_">>

\* FunctionId::parse
FunctionId_parse(input) ==
    LET parts == SplitDoubleColon(input)
    IN  IF Len(parts) # 3
        THEN Err([kind |-> "function_id_shape", input |-> input])
        ELSE LET address == ModuleAddress_from_str(parts[1])
             IN  IF ~address.ok \/ ~IsValidIdentifier(parts[2])
                 THEN Err([kind |-> "invalid_module_id",
                           module |-> parts[1] \o <<":", ":">> \o parts[2]])
                 ELSE IF ~IsValidIdentifier(parts[3])
                 THEN Err([kind |-> "invalid_function_identifier",
                           function |-> parts[3]])
                 ELSE Ok([module_id |-> [address |-> address.v, name |-> parts[2]],
                          function |-> parts[3]])

\* A struct tag without and with type arguments.
StructTag(address, module, name, type_args) ==
    [tag |-> "struct", module_id |-> [address |-> address, name |-> module],
     name |-> name, type_args |-> type_args]

\* TypeTag::from_str on the type-argument texts of the catalogues: the
\* primitive `u8`, vectors and struct tags parse; a bare `T1` is no type tag.
TypeTag_from_str(text) ==
    CASE text = TA_u8 -> Ok([tag |-> "u8"])
      [] text = TA_T0Coin ->
            Ok([tag |-> "struct",
                module_id |-> [address |-> <<"1">>, name |-> <<"m", "y">>],
                name |-> <<"T", "0", "C", "o", "i", "n">>,
                type_args |-> <<>>])
      [] text = TA_T0 -> Ok(StructTag(<<"1">>, <<"m">>, <<"T", "0">>, <<>>))
      [] text = TA_Coin ->
            Ok(StructTag(<<"1">>, <<"a", "a">>, <<"C", "o", "i", "n">>, <<>>))
      [] text = TA_vector_u8 -> Ok([tag |-> "vector", element |-> [tag |-> "u8"]])
      [] text = TA_vector_T0Coin ->
            Ok([tag |-> "vector",
                element |-> StructTag(<<"1">>, <<"m", "y">>,
                                      <<"T", "0", "C", "o", "i", "n">>, <<>>)])
      [] text = TA_Box_Item ->
            Ok(StructTag(<<"1">>, <<"m">>, <<"B", "o", "x">>,
                         <<StructTag(<<"2">>, <<"n">>, <<"I", "t", "e", "m">>, <<>>)>>))
      [] text = TA_vector_Pair ->
            Ok([tag |-> "vector",
                element |-> StructTag(<<"3">>, <<"k">>, <<"P", "a", "i", "r">>,
                                <<[tag |-> "u8"],
                                  StructTag(<<"2">>, <<"n">>, <<"I", "t", "e", "m">>,
                                            <<>>)>>)])
      [] OTHER -> Err("invalid_type_tag")

\* The first type argument that does not parse (0 when all do).
FirstInvalidTypeArgument(type_arguments) ==
    LET bad == {n \in 1..Len(type_arguments) : ~TypeTag_from_str(type_arguments[n]).ok}
    IN  IF bad = {} THEN 0 ELSE CHOOSE n \in bad : \A m \in bad : n <= m

\* The first Ref argument whose step is no key of `labels` (0 when there is
\* none); positions here are 1-based, arg_index in the source is 0-based.
FirstUnknownRef(args, known) ==
    LET bad == {n \in 1..Len(args) :
                    args[n].kind = "Ref" /\ args[n].step \notin DOMAIN known}
    IN  IF bad = {} THEN 0 ELSE CHOOSE n \in bad : \A m \in bad : n <= m

\* Mutant: the label is registered before the step's refs are checked.
ResolveIter_InsertFirst(state, index, step) ==
    LET label == Trim(step.label)
        function_id == FunctionId_parse(step.function)
        known == (label :> index) @@ state.labels
    IN  IF label = <<>> THEN Err([kind |-> "empty_label", index |-> index])
        ELSE IF label \in DOMAIN state.labels
        THEN Err([kind |-> "duplicate_label", label |-> label])
        ELSE IF ~function_id.ok
        THEN Err([kind |-> "invalid_function_id", label |-> label])
        ELSE IF FirstInvalidTypeArgument(step.type_arguments) # 0
        THEN Err([kind |-> "invalid_type_argument", label |-> label])
        ELSE IF FirstUnknownRef(step.args, known) # 0
        THEN Err([kind |-> "ref_not_previous", label |-> label,
                  arg_index |-> FirstUnknownRef(step.args, known) - 1])
        ELSE Ok([labels |-> known,
                 resolved |-> Append(state.resolved,
                                     [label |-> label,
                                      function_id |-> function_id.v,
                                      type_arguments |-> step.type_arguments,
                                      args |-> step.args])])

\* Mutant: the duplicate-label check is dropped (the insert overwrites).
ResolveIter_NoDuplicateCheck(state, index, step) ==
    LET label == Trim(step.label)
        function_id == FunctionId_parse(step.function)
    IN  IF label = <<>> THEN Err([kind |-> "empty_label", index |-> index])
        ELSE IF ~function_id.ok
        THEN Err([kind |-> "invalid_function_id", label |-> label])
        ELSE IF FirstInvalidTypeArgument(step.type_arguments) # 0
        THEN Err([kind |-> "invalid_type_argument", label |-> label])
        ELSE IF FirstUnknownRef(step.args, state.labels) # 0
        THEN Err([kind |-> "ref_not_previous", label |-> label,
                  arg_index |-> FirstUnknownRef(step.args, state.labels) - 1])
        ELSE Ok([labels |-> (label :> index) @@ state.labels,
                 resolved |-> Append(state.resolved,
                                     [label |-> label,
                                      function_id |-> function_id.v,
                                      type_arguments |-> step.type_arguments,
                                      args |-> step.args])])

\* Mutant: the references of a step are not checked against the labels seen.
ResolveIter_NoRefCheck(state, index, step) ==
    LET label == Trim(step.label)
        function_id == FunctionId_parse(step.function)
    IN  IF label = <<>> THEN Err([kind |-> "empty_label", index |-> index])
        ELSE IF label \in DOMAIN state.labels
        THEN Err([kind |-> "duplicate_label", label |-> label])
        ELSE IF ~function_id.ok
        THEN Err([kind |-> "invalid_function_id", label |-> label])
        ELSE IF FirstInvalidTypeArgument(step.type_arguments) # 0
        THEN Err([kind |-> "invalid_type_argument", label |-> label,
                  type_argument |->
                      step.type_arguments[FirstInvalidTypeArgument(step.type_arguments)]])
        ELSE Ok([labels |-> (label :> index) @@ state.labels,
                 resolved |-> Append(state.resolved,
                                     [label |-> label,
                                      function_id |-> function_id.v,
                                      type_arguments |-> step.type_arguments,
                                      args |-> step.args])])

\* One iteration of the `for (index, step)` loop of resolve_steps on the
\* loop state [labels, resolved]; `index` is 0-based.
ResolveIter(state, index, step) ==
    LET label == Trim(step.label)
        function_id == FunctionId_parse(step.function)
    IN  IF label = <<>> THEN Err([kind |-> "empty_label", index |-> index])
        ELSE IF label \in DOMAIN state.labels
        THEN Err([kind |-> "duplicate_label", label |-> label])
        ELSE IF ~function_id.ok
        THEN Err([kind |-> "invalid_function_id", label |-> label])
        ELSE IF FirstInvalidTypeArgument(step.type_arguments) # 0
        THEN Err([kind |-> "invalid_type_argument", label |-> label,
                  type_argument |->
                      step.type_arguments[FirstInvalidTypeArgument(step.type_arguments)]])
        ELSE IF FirstUnknownRef(step.args, state.labels) # 0
        THEN Err([kind |-> "ref_not_previous", label |-> label,
                  arg_index |-> FirstUnknownRef(step.args, state.labels) - 1,
                  ref_step |->
                      step.args[FirstUnknownRef(step.args, state.labels)].step])
        ELSE Ok([labels |-> (label :> index) @@ state.labels,
                 resolved |-> Append(state.resolved,
                                     [label |-> label,
                                      function_id |-> function_id.v,
                                      type_arguments |-> step.type_arguments,
                                      args |-> step.args])])

(***************************************************************************)
(* SpecResolve: resolve_steps on every payload of at most MaxSteps steps.  *)
(* The loop reads one StepInput per iteration; the model draws it when the *)
(* iteration reads it.                                                     *)
(***************************************************************************)
LabelCatalogue ==
    {<<>>, <<" ">>, <<"a">>, <<" ", "a">>, <<"a", " ">>, <<"b">>}

F_ok == <<"0", "x", "1", ":", ":", "m", ":", ":", "f">>
F_two_parts == <<"0", "x", "1", ":", ":", "m">>
F_bad_ident == <<"0", "x", "1", ":", ":", "m", ":", ":", "1", "f">>

ResolveArgs ==
    {[kind |-> "Signer"], [kind |-> "Literal", value |-> [t |-> "null"]]}
    \cup {[kind |-> "Ref", step |-> l, return_index |-> 0] : l \in LabelCatalogue}

ResolveSteps ==
    {[label |-> l, function |-> f[1], type_arguments |-> f[2], args |-> a] :
        l \in LabelCatalogue,
        f \in {<<F_ok, <<>> >>, <<F_ok, <<TA_u8>> >>, <<F_two_parts, <<>> >>,
               <<F_bad_ident, <<>> >>, <<F_ok, <<TA_u8, TA_T1>> >>},
        a \in ListsUpTo(ResolveArgs, MaxArgs)}

ResolveInit ==
    /\ pc = "resolve_loop"
    /\ payload_steps = <<>>
    /\ resolved = <<>>
    /\ labels = <<>>
    /\ err = None
    /\ FnIdle
    /\ RunIdle

\* The loop body on the next step of the payload.
ResolveStep ==
    /\ pc = "resolve_loop"
    /\ Len(payload_steps) < MaxSteps
    /\ \E step \in ResolveSteps :
        LET r == ResolveIter([labels |-> labels, resolved |-> resolved],
                             Len(payload_steps), step)
        IN  /\ payload_steps' = Append(payload_steps, step)
            /\ IF r.ok
               THEN /\ labels' = r.v.labels
                    /\ resolved' = r.v.resolved
                    /\ UNCHANGED <<pc, err>>
               ELSE /\ err' = Some(r.e)
                    /\ pc' = "resolve_err"
                    /\ UNCHANGED <<labels, resolved>>
    /\ UNCHANGED <<fnVars, runVars>>

\* The payload has no further step: the empty-payload check, or Ok(resolved).
ResolveEnd ==
    /\ pc = "resolve_loop"
    /\ IF payload_steps = <<>>
       THEN /\ err' = Some([kind |-> "no_steps"])
            /\ pc' = "resolve_err"
       ELSE /\ pc' = "resolve_ok"
            /\ UNCHANGED err
    /\ UNCHANGED <<payload_steps, resolved, labels, fnVars, runVars>>

ResolveNext == ResolveStep \/ ResolveEnd

SpecResolve == ResolveInit /\ [][ResolveNext]_vars

\* The Ref arguments of the payload read so far: <<step position, argument
\* position>>, both 1-based.
RefPositions ==
    {jk \in (1..Len(payload_steps)) \X (1..MaxArgs + 1) :
        /\ jk[2] <= Len(payload_steps[jk[1]].args)
        /\ payload_steps[jk[1]].args[jk[2]].kind = "Ref"}

(***************************************************************************)
(* C1: when resolve_steps returns a ResolvedStep list, every Ref argument  *)
(* of every step names a label registered by a strictly earlier step; a    *)
(* Ref to a later step, to the step itself or to no step makes it fail.    *)
(***************************************************************************)
C1_RefsNameEarlierLabels ==
    pc = "resolve_ok" =>
        \A jk \in RefPositions :
            \E i \in 1..(jk[1] - 1) :
                Trim(payload_steps[i].label) = payload_steps[jk[1]].args[jk[2]].step

\* Step 1 refers to step 0's label and the list is returned.
C1_Witness ==
    /\ pc = "resolve_ok"
    /\ Len(payload_steps) = 2
    /\ RefPositions # {}

(***************************************************************************)
(* C2: a Ref whose `step` equals the label of an earlier step exactly as   *)
(* that label was written in the payload, and is non-empty after trimming, *)
(* never fails the ref check.                                              *)
(***************************************************************************)
C2_RefToLabelAsWrittenAccepted ==
    (pc = "resolve_err" /\ err.v.kind = "ref_not_previous") =>
        LET j == Len(payload_steps)
            ref_step == payload_steps[j].args[err.v.arg_index + 1].step
        IN  ~(/\ Trim(ref_step) # <<>>
              /\ \E i \in 1..(j - 1) : payload_steps[i].label = ref_step)

(***************************************************************************)
(* C3: two steps carrying the same label make resolve_steps fail; on       *)
(* success the returned steps are the payload's steps in payload order,    *)
(* with non-empty and pairwise distinct labels.                            *)
(***************************************************************************)
C3_LabelsUniqueAndOrdered ==
    pc = "resolve_ok" =>
        /\ \A i, j \in 1..Len(payload_steps) :
              i # j => payload_steps[i].label # payload_steps[j].label
        /\ Len(resolved) = Len(payload_steps)
        /\ \A i \in 1..Len(resolved) :
              /\ resolved[i].label # <<>>
              /\ resolved[i].label = Trim(payload_steps[i].label)
              /\ resolved[i].args = payload_steps[i].args
              /\ resolved[i].type_arguments = payload_steps[i].type_arguments
        /\ \A i, j \in 1..Len(resolved) :
              i # j => resolved[i].label # resolved[j].label

\* Two steps, the first written with a leading blank.
C3_Witness ==
    /\ pc = "resolve_ok"
    /\ Len(resolved) = 2
    /\ payload_steps[1].label = <<" ", "a">>
    /\ resolved[1].label = <<"a">>
    /\ resolved[2].label = <<"b">>

(***************************************************************************)
(* 4.1 Payload parser.                                                     *)
(*                                                                         *)
(* A serde_json::Value is [t |-> "null"], [t |-> "bool", b |-> BOOLEAN],   *)
(* [t |-> "number", text |-> what Number::to_string prints],               *)
(* [t |-> "string", s |-> text], [t |-> "array", items |-> sequence] or    *)
(* [t |-> "object", fields |-> function from field names to Values].       *)
(***************************************************************************)
JNull == [t |-> "null"]
JBool(b) == [t |-> "bool", b |-> b]
JNumber(text) == [t |-> "number", text |-> text]
JString(s) == [t |-> "string", s |-> s]
JArray(items) == [t |-> "array", items |-> items]
JObject(fields) == [t |-> "object", fields |-> fields]

\* The empty serde_json::Map.
NoFields == [k \in {} |-> JNull]

\* Deserialize for usize: a Number that is a non-negative integer.  (Every
\* integer text of the model is far below usize::MAX.)
DecodeUsize(raw) ==
    IF /\ raw.t = "number"
       /\ raw.text # <<>>
       /\ \A i \in 1..Len(raw.text) : raw.text[i] \in AsciiDigits
    THEN Ok(DecimalValue(raw.text))
    ELSE Err("invalid_type")

\* serde_json::from_value::<ArgInputKindOnly>: a struct that ignores
\* unknown fields, from a map or from a one-element sequence.
DecodeArgInputKind(raw) ==
    LET kind == IF raw.t = "object" /\ "kind" \in DOMAIN raw.fields
                THEN Some(raw.fields["kind"])
                ELSE IF raw.t = "array" /\ Len(raw.items) = 1
                THEN Some(raw.items[1])
                ELSE None
    IN  IF /\ kind.some
           /\ kind.v.t = "string"
           /\ kind.v.s \in {<<"s", "i", "g", "n", "e", "r">>,
                            <<"l", "i", "t", "e", "r", "a", "l">>,
                            <<"r", "e", "f">>}
        THEN Ok(kind.v.s)
        ELSE Err("kind")

\* The fields a #[serde(deny_unknown_fields)] variant struct accepts.
SignerArgFields == {"kind"}
LiteralArgFields == {"kind", "value"}
RefArgFields == {"kind", "step", "returnIndex", "return_index"}

\* Mutant: the variant structs without deny_unknown_fields.
DecodeArgInput_AllowUnknown(raw) ==
    LET kind == DecodeArgInputKind(raw)
    IN  IF ~kind.ok THEN Err("kind")
        ELSE IF raw.t = "array"
        THEN IF kind.v = <<"s", "i", "g", "n", "e", "r">>
             THEN Ok([kind |-> "Signer"]) ELSE Err("invalid_length")
        ELSE IF kind.v = <<"s", "i", "g", "n", "e", "r">>
        THEN Ok([kind |-> "Signer"])
        ELSE IF kind.v = <<"l", "i", "t", "e", "r", "a", "l">>
        THEN IF "value" \notin DOMAIN raw.fields THEN Err("missing_field")
             ELSE Ok([kind |-> "Literal", value |-> raw.fields["value"]])
        ELSE LET index_keys == {"returnIndex", "return_index"} \cap DOMAIN raw.fields
             IN  IF "step" \notin DOMAIN raw.fields \/ index_keys = {}
                 THEN Err("missing_field")
                 ELSE IF Cardinality(index_keys) = 2 THEN Err("duplicate_field")
                 ELSE LET index == DecodeUsize(raw.fields[CHOOSE k \in index_keys : TRUE])
                      IN  IF raw.fields["step"].t # "string" \/ ~index.ok
                          THEN Err("invalid_type")
                          ELSE Ok([kind |-> "Ref", step |-> raw.fields["step"].s,
                                   return_index |-> index.v])

\* <ArgInput as Deserialize>::deserialize
DecodeArgInput(raw) ==
    LET kind == DecodeArgInputKind(raw)
    IN  IF ~kind.ok THEN Err("kind")
        ELSE IF raw.t = "array"
        \* A one-element sequence gives the variant struct its `kind` alone.
        THEN IF kind.v = <<"s", "i", "g", "n", "e", "r">>
             THEN Ok([kind |-> "Signer"]) ELSE Err("invalid_length")
        ELSE IF kind.v = <<"s", "i", "g", "n", "e", "r">>
        THEN IF ~(DOMAIN raw.fields \subseteq SignerArgFields) THEN Err("unknown_field")
             ELSE Ok([kind |-> "Signer"])
        ELSE IF kind.v = <<"l", "i", "t", "e", "r", "a", "l">>
        THEN IF ~(DOMAIN raw.fields \subseteq LiteralArgFields) THEN Err("unknown_field")
             ELSE IF "value" \notin DOMAIN raw.fields THEN Err("missing_field")
             ELSE Ok([kind |-> "Literal", value |-> raw.fields["value"]])
        ELSE LET index_keys == {"returnIndex", "return_index"} \cap DOMAIN raw.fields
             IN  IF ~(DOMAIN raw.fields \subseteq RefArgFields) THEN Err("unknown_field")
                 ELSE IF "step" \notin DOMAIN raw.fields \/ index_keys = {}
                 THEN Err("missing_field")
                 ELSE IF Cardinality(index_keys) = 2 THEN Err("duplicate_field")
                 ELSE LET index == DecodeUsize(raw.fields[CHOOSE k \in index_keys : TRUE])
                      IN  IF raw.fields["step"].t # "string" \/ ~index.ok
                          THEN Err("invalid_type")
                          ELSE Ok([kind |-> "Ref", step |-> raw.fields["step"].s,
                                   return_index |-> index.v])

\* Vec<T> from a Value: an array whose every element decodes.
DecodeStrings(raw) ==
    IF raw.t = "array" /\ \A i \in 1..Len(raw.items) : raw.items[i].t = "string"
    THEN Ok([i \in 1..Len(raw.items) |-> raw.items[i].s])
    ELSE Err("invalid_type")

DecodeArgInputs(raw) ==
    IF raw.t = "array" /\ \A i \in 1..Len(raw.items) : DecodeArgInput(raw.items[i]).ok
    THEN Ok([i \in 1..Len(raw.items) |-> DecodeArgInput(raw.items[i]).v])
    ELSE Err("invalid_arg")

StepInputFields == {"label", "function", "typeArguments", "type_arguments", "args"}

\* StepInput (deny_unknown_fields; type_arguments defaults to empty).  The
\* derived visitor also takes the four fields in order from a sequence.
DecodeStepInput(raw) ==
    IF raw.t = "object"
    THEN LET keys == DOMAIN raw.fields
             ty_keys == {"typeArguments", "type_arguments"} \cap keys
             type_arguments ==
                 IF ty_keys = {} THEN Ok(<<>>)
                 ELSE DecodeStrings(raw.fields[CHOOSE k \in ty_keys : TRUE])
         IN  IF ~(keys \subseteq StepInputFields) THEN Err("unknown_field")
             ELSE IF ~({"label", "function", "args"} \subseteq keys)
             THEN Err("missing_field")
             ELSE IF Cardinality(ty_keys) = 2 THEN Err("duplicate_field")
             ELSE IF \/ raw.fields["label"].t # "string"
                     \/ raw.fields["function"].t # "string"
                     \/ ~type_arguments.ok
                     \/ ~DecodeArgInputs(raw.fields["args"]).ok
             THEN Err("invalid_field")
             ELSE Ok([label |-> raw.fields["label"].s,
                      function |-> raw.fields["function"].s,
                      type_arguments |-> type_arguments.v,
                      args |-> DecodeArgInputs(raw.fields["args"]).v])
    ELSE IF raw.t = "array"
    THEN IF Len(raw.items) # 4 THEN Err("invalid_length")
         ELSE IF \/ raw.items[1].t # "string"
                 \/ raw.items[2].t # "string"
                 \/ ~DecodeStrings(raw.items[3]).ok
                 \/ ~DecodeArgInputs(raw.items[4]).ok
         THEN Err("invalid_field")
         ELSE Ok([label |-> raw.items[1].s,
                  function |-> raw.items[2].s,
                  type_arguments |-> DecodeStrings(raw.items[3]).v,
                  args |-> DecodeArgInputs(raw.items[4]).v])
    ELSE Err("invalid_type")

\* serde_json::from_value::<Vec<StepInput>>
DecodeStepInputs(raw) ==
    IF raw.t = "array" /\ \A i \in 1..Len(raw.items) : DecodeStepInput(raw.items[i]).ok
    THEN Ok([i \in 1..Len(raw.items) |-> DecodeStepInput(raw.items[i]).v])
    ELSE Err([kind |-> "step_array_parse"])

\* Mutant: the legacy `{"steps": [...]}` wrapper is still unwrapped.
parse_steps_payload_LegacyObject(raw) ==
    IF raw.t = "array" THEN DecodeStepInputs(raw)
    ELSE IF raw.t = "object" /\ "steps" \in DOMAIN raw.fields
    THEN DecodeStepInputs(raw.fields["steps"])
    ELSE Err([kind |-> "invalid_payload_shape"])

parse_steps_payload(raw) ==
    IF raw.t = "array" THEN DecodeStepInputs(raw)
    ELSE Err([kind |-> "invalid_payload_shape"])

(***************************************************************************)
(* SpecParse: parse_steps_payload on scalars, on objects wrapping a step   *)
(* array, and on arrays whose last step holds one argument value drawn     *)
(* from every combination of fields and `kind` values.                     *)
(***************************************************************************)
K_signer == JString(<<"s", "i", "g", "n", "e", "r">>)
K_literal == JString(<<"l", "i", "t", "e", "r", "a", "l">>)
K_ref == JString(<<"r", "e", "f">>)
K_other == JString(<<"p", "u", "r", "e">>)

ArgFieldNames == {"kind", "value", "step", "returnIndex", "return_index", "foo"}

\* An argument object with the fields `keys`.
ArgObject(keys, kind, step, index) ==
    JObject([k \in keys |->
                CASE k = "kind" -> kind
                  [] k = "value" -> JNumber(<<"1">>)
                  [] k = "step" -> step
                  [] k = "foo" -> JNumber(<<"1">>)
                  [] OTHER -> index])

ArgValues ==
    {ArgObject(keys, kind, step, index) :
        keys \in SUBSET ArgFieldNames,
        kind \in {K_signer, K_literal, K_ref, K_other, JNumber(<<"0">>)},
        step \in {JString(<<"a">>), JNull},
        index \in {JNumber(<<"0">>), JNumber(<<"-", "1">>), JNumber(<<"1", ".", "5">>)}}
    \cup {JArray(<<K_signer>>), JArray(<<K_literal>>),
          JArray(<<K_literal, JNumber(<<"1">>)>>), JString(<<"s", "i", "g", "n", "e", "r">>)}

GoodSignerArg == JObject([k \in {"kind"} |-> K_signer])

StepObject(label, args) ==
    JObject([k \in {"label", "function", "args"} |->
                CASE k = "label" -> label
                  [] k = "function" -> JString(F_ok)
                  [] OTHER -> args])

GoodStep == StepObject(JString(<<"a">>), JArray(<<GoodSignerArg>>))

StepValues ==
    {StepObject(JString(<<"b">>), JArray(pre \o <<arg>>)) :
        pre \in {<<>>, <<GoodSignerArg>>}, arg \in ArgValues}
    \cup {GoodStep,
          JObject([k \in {"label", "function"} |-> JString(F_ok)]),
          JObject([k \in {"label", "function", "args", "tokens"} |->
                      IF k \in {"args", "tokens"} THEN JArray(<<>>) ELSE JString(F_ok)]),
          JObject([k \in {"label", "function", "args", "typeArguments"} |->
                      IF k = "args" THEN JArray(<<>>)
                      ELSE IF k = "typeArguments" THEN JArray(<<JString(TA_u8)>>)
                      ELSE JString(F_ok)]),
          JObject([k \in {"label", "function", "args", "typeArguments", "type_arguments"} |->
                      IF k \in {"args", "typeArguments", "type_arguments"}
                      THEN JArray(<<>>) ELSE JString(F_ok)]),
          JArray(<<JString(<<"b">>), JString(F_ok), JArray(<<>>), JArray(<<>>)>>),
          JNumber(<<"1">>)}

StepArrays ==
    {JArray(<<>>)} \cup {JArray(pre \o <<s>>) : pre \in {<<>>, <<GoodStep>>}, s \in StepValues}

RawPayloads ==
    StepArrays
    \cup {JNull, JBool(TRUE), JNumber(<<"1">>), JString(<<"a">>), JObject(NoFields)}
    \cup {JObject([k \in {"steps"} |-> a]) : a \in StepArrays}
    \cup {JObject([k \in {"tokens", "steps"} |-> JArray(<<>>)])}

ParseInit ==
    /\ pc = "parse_start"
    /\ fn_in \in [raw : RawPayloads]
    /\ fn_out = None
    /\ ResolveIdle
    /\ RunIdle

ParseStepsPayload ==
    /\ pc = "parse_start"
    /\ fn_out' = Some(parse_steps_payload(fn_in.raw))
    /\ pc' = "parse_done"
    /\ UNCHANGED <<fn_in, resolveVars, runVars>>

ParseNext == ParseStepsPayload

SpecParse == ParseInit /\ [][ParseNext]_vars

(***************************************************************************)
(* C4: parse_steps_payload accepts only a top-level array; every other     *)
(* JSON value, an object wrapping a valid step array under `steps`         *)
(* included, is rejected.                                                  *)
(***************************************************************************)
C4_OnlyTopLevelArrayAccepted ==
    pc = "parse_done" => (fn_out.v.ok => fn_in.raw.t = "array")

\* The legacy object around a valid step array is rejected; the same array
\* bare is what the wrapped field holds.
C4_Witness ==
    /\ pc = "parse_done"
    /\ fn_in.raw = JObject([k \in {"steps"} |-> JArray(<<GoodStep>>)])
    /\ ~fn_out.v.ok
    /\ fn_out.v.e.kind = "invalid_payload_shape"
    /\ parse_steps_payload(fn_in.raw.fields["steps"]).ok

\* The argument objects of the step objects of a payload array.
ArgObjectsOf(raw) ==
    {a \in UNION {{s.fields["args"].items[i] : i \in 1..Len(s.fields["args"].items)} :
                    s \in {raw.items[n] : n \in {m \in 1..Len(raw.items) :
                            /\ raw.items[m].t = "object"
                            /\ "args" \in DOMAIN raw.items[m].fields
                            /\ raw.items[m].fields["args"].t = "array"}}} :
        a.t = "object"}

\* What the claim asks of an argument object.
ArgObjectWellFormed(a) ==
    /\ "kind" \in DOMAIN a.fields
    /\ a.fields["kind"] \in {K_signer, K_literal, K_ref}
    /\ a.fields["kind"] = K_signer => DOMAIN a.fields = {"kind"}
    /\ a.fields["kind"] = K_literal => DOMAIN a.fields = {"kind", "value"}
    /\ a.fields["kind"] = K_ref =>
          /\ DOMAIN a.fields \subseteq {"kind", "step", "returnIndex", "return_index"}
          /\ "step" \in DOMAIN a.fields
          /\ {"returnIndex", "return_index"} \cap DOMAIN a.fields # {}

(***************************************************************************)
(* C5: an argument object decodes only with a `kind` of signer, literal or *)
(* ref, no field besides the selected variant's own and none of its        *)
(* required fields missing; any other argument object fails the parse of   *)
(* the whole payload.                                                      *)
(***************************************************************************)
C5_ArgObjectsStrict ==
    (pc = "parse_done" /\ fn_out.v.ok) =>
        \A a \in ArgObjectsOf(fn_in.raw) : ArgObjectWellFormed(a)

\* A signer argument with one unknown field, after a good step and a good
\* argument, fails the whole payload.
C5_Witness ==
    /\ pc = "parse_done"
    /\ fn_in.raw =
        JArray(<<GoodStep,
                 StepObject(JString(<<"b">>),
                            JArray(<<GoodSignerArg,
                                     JObject([k \in {"kind", "foo"} |->
                                                IF k = "kind" THEN K_signer
                                                ELSE JNumber(<<"1">>)])>>))>>)
    /\ ~fn_out.v.ok

(***************************************************************************)
(* 4.6 Literal encoder.                                                    *)
(*                                                                         *)
(* An integer is held as [neg |-> BOOLEAN, mag |-> decimal digits without  *)
(* leading zeros], so the 64-, 128- and 256-bit types keep their width.    *)
(* Bytes are sequences of numbers in 0..255.                               *)
(***************************************************************************)
DigitChar(n) ==
    CASE n = 0 -> "0" [] n = 1 -> "1" [] n = 2 -> "2" [] n = 3 -> "3"
      [] n = 4 -> "4" [] n = 5 -> "5" [] n = 6 -> "6" [] n = 7 -> "7"
      [] n = 8 -> "8" [] n = 9 -> "9"

HexValue(ch) ==
    CASE ch \in AsciiDigits -> DigitValue(ch)
      [] ch \in {"a", "A"} -> 10 [] ch \in {"b", "B"} -> 11
      [] ch \in {"c", "C"} -> 12 [] ch \in {"d", "D"} -> 13
      [] ch \in {"e", "E"} -> 14 [] ch \in {"f", "F"} -> 15

HexChar(n) ==
    CASE n < 10 -> DigitChar(n)
      [] n = 10 -> "a" [] n = 11 -> "b" [] n = 12 -> "c"
      [] n = 13 -> "d" [] n = 14 -> "e" [] n = 15 -> "f"

StartsWith(text, prefix) ==
    Len(text) >= Len(prefix) /\ SubSeq(text, 1, Len(prefix)) = prefix

EndsWith(text, suffix) ==
    Len(text) >= Len(suffix)
    /\ SubSeq(text, Len(text) - Len(suffix) + 1, Len(text)) = suffix

\* str::trim_start_matches: every repetition of the prefix is removed.
RECURSIVE TrimStartMatches(_, _)
TrimStartMatches(text, prefix) ==
    IF StartsWith(text, prefix)
    THEN TrimStartMatches(SubSeq(text, Len(prefix) + 1, Len(text)), prefix)
    ELSE text

\* a <= b for two magnitudes (decimal digits without leading zeros).
MagLeq(a, b) ==
    \/ Len(a) < Len(b)
    \/ /\ Len(a) = Len(b)
       /\ \/ a = b
          \/ \E i \in 1..Len(a) :
                /\ DigitValue(a[i]) < DigitValue(b[i])
                /\ \A j \in 1..(i - 1) : a[j] = b[j]

\* The largest magnitudes of the integer types: 2^bits - 1, 2^(bits-1) - 1
\* and 2^(bits-1).
MaxUnsigned(bits) ==
    CASE bits = 8 -> <<"2", "5", "5">>
      [] bits = 16 -> <<"6", "5", "5", "3", "5">>
      [] bits = 32 -> <<"4", "2", "9", "4", "9", "6", "7", "2", "9", "5">>
      [] bits = 64 -> <<"1", "8", "4", "4", "6", "7", "4", "4", "0", "7", "3", "7", "0",
              "9", "5", "5", "1", "6", "1", "5">>
      [] bits = 128 -> <<"3", "4", "0", "2", "8", "2", "3", "6", "6", "9", "2", "0", "9",
              "3", "8", "4", "6", "3", "4", "6", "3", "3", "7", "4", "6", "0", "7", "4",
              "3", "1", "7", "6", "8", "2", "1", "1", "4", "5", "5">>
      [] bits = 256 -> <<"1", "1", "5", "7", "9", "2", "0", "8", "9", "2", "3", "7", "3",
              "1", "6", "1", "9", "5", "4", "2", "3", "5", "7", "0", "9", "8", "5", "0",
              "0", "8", "6", "8", "7", "9", "0", "7", "8", "5", "3", "2", "6",
              "9", "9", "8", "4", "6", "6", "5", "6", "4", "0", "5", "6",
              "4", "0", "3", "9", "4", "5", "7", "5", "8", "4",
              "0", "0", "7", "9", "1", "3", "1", "2", "9",
              "6", "3", "9", "9", "3", "5">>

MaxSigned(bits) ==
    CASE bits = 8 -> <<"1", "2", "7">>
      [] bits = 16 -> <<"3", "2", "7", "6", "7">>
      [] bits = 32 -> <<"2", "1", "4", "7", "4", "8", "3", "6", "4", "7">>
      [] bits = 64 -> <<"9", "2", "2", "3", "3", "7", "2", "0", "3", "6", "8", "5", "4",
              "7", "7", "5", "8", "0", "7">>
      [] bits = 128 -> <<"1", "7", "0", "1", "4", "1", "1", "8", "3", "4", "6", "0", "4",
              "6", "9", "2", "3", "1", "7", "3", "1", "6", "8", "7", "3", "0", "3", "7",
              "1", "5", "8", "8", "4", "1", "0", "5", "7", "2", "7">>
      [] bits = 256 -> <<"5", "7", "8", "9", "6", "0", "4", "4", "6", "1", "8", "6", "5",
              "8", "0", "9", "7", "7", "1", "1", "7", "8", "5", "4", "9", "2", "5", "0",
              "4", "3", "4", "3", "9", "5", "3", "9", "2", "6", "6", "3", "4",
              "9", "9", "2", "3", "3", "2", "8", "2", "0", "2", "8", "2",
              "0", "1", "9", "7", "2", "8", "7", "9", "2", "0",
              "0", "3", "9", "5", "6", "5", "6", "4", "8",
              "1", "9", "9", "6", "7">>

MinSignedMagnitude(bits) ==
    CASE bits = 8 -> <<"1", "2", "8">>
      [] bits = 16 -> <<"3", "2", "7", "6", "8">>
      [] bits = 32 -> <<"2", "1", "4", "7", "4", "8", "3", "6", "4", "8">>
      [] bits = 64 -> <<"9", "2", "2", "3", "3", "7", "2", "0", "3", "6", "8", "5", "4",
              "7", "7", "5", "8", "0", "8">>
      [] bits = 128 -> <<"1", "7", "0", "1", "4", "1", "1", "8", "3", "4", "6", "0", "4",
              "6", "9", "2", "3", "1", "7", "3", "1", "6", "8", "7", "3", "0", "3", "7",
              "1", "5", "8", "8", "4", "1", "0", "5", "7", "2", "8">>
      [] bits = 256 -> <<"5", "7", "8", "9", "6", "0", "4", "4", "6", "1", "8", "6", "5",
              "8", "0", "9", "7", "7", "1", "1", "7", "8", "5", "4", "9", "2", "5", "0",
              "4", "3", "4", "3", "9", "5", "3", "9", "2", "6", "6", "3", "4",
              "9", "9", "2", "3", "3", "2", "8", "2", "0", "2", "8", "2",
              "0", "1", "9", "7", "2", "8", "7", "9", "2", "0",
              "0", "3", "9", "5", "6", "5", "6", "4", "8",
              "1", "9", "9", "6", "8">>

\* Mutant: the parsed magnitude is not compared with the range of the type.
ParseInteger_Unchecked(text, signed, bits) ==
    LET has_sign == text # <<>> /\ (text[1] = "+" \/ (signed /\ text[1] = "-"))
        negative == has_sign /\ text[1] = "-"
        digits == IF has_sign THEN Tail(text) ELSE text
        mag == StripLeadingZeros(digits)
    IN  IF text = <<>> THEN Err("empty")
        ELSE IF digits = <<>> \/ \E i \in 1..Len(digits) : digits[i] \notin AsciiDigits
        THEN Err("invalid_digit")
        ELSE Ok([neg |-> negative /\ mag # <<"0">>, mag |-> mag])

\* <T as FromStr>::from_str for the integer types: an optional `+`, or `-`
\* for a signed type, then decimal digits; the value must be in range.
\* (U256 and I256 are move_core_types types; on plain decimal text they
\* parse as the primitive integers do.)
ParseInteger(text, signed, bits) ==
    LET has_sign == text # <<>> /\ (text[1] = "+" \/ (signed /\ text[1] = "-"))
        negative == has_sign /\ text[1] = "-"
        digits == IF has_sign THEN Tail(text) ELSE text
        mag == StripLeadingZeros(digits)
    IN  IF text = <<>> THEN Err("empty")
        ELSE IF digits = <<>> \/ \E i \in 1..Len(digits) : digits[i] \notin AsciiDigits
        THEN Err("invalid_digit")
        ELSE IF negative /\ ~MagLeq(mag, MinSignedMagnitude(bits))
        THEN Err("neg_overflow")
        ELSE IF ~negative /\ ~MagLeq(mag, IF signed THEN MaxSigned(bits)
                                          ELSE MaxUnsigned(bits))
        THEN Err("pos_overflow")
        ELSE Ok([neg |-> negative /\ mag # <<"0">>, mag |-> mag])

\* <T as Display>::to_string
IntegerToString(n) == IF n.neg THEN <<"-">> \o n.mag ELSE n.mag

normalize_numeric_literal(value) ==
    IF value.t = "string"
    THEN LET trimmed == Trim(value.s)
         IN  IF trimmed = <<>> THEN Err("empty_numeric_string")
             ELSE IF EndsWith(trimmed, <<"n">>)
             THEN Ok(SubSeq(trimmed, 1, Len(trimmed) - 1))
             ELSE Ok(trimmed)
    ELSE IF value.t = "number" THEN Ok(value.text)
    ELSE Err("expected_numeric_literal")

\* parse_number::<T>, T given by its signedness and width.
parse_number(value, signed, bits) ==
    LET text == normalize_numeric_literal(value)
    IN  IF ~text.ok THEN text
        ELSE IF ~ParseInteger(text.v, signed, bits).ok THEN Err("invalid_literal")
        ELSE ParseInteger(text.v, signed, bits)

parse_bool_literal(value) ==
    IF value.t = "bool" THEN Ok(value.b) ELSE Err("expected_boolean_literal")

parse_string_literal(value) ==
    IF value.t = "string" THEN Ok(value.s) ELSE Err("expected_string_literal")

\* hex::decode: an even number of hex digits.
hex_decode(text) ==
    IF Len(text) % 2 = 0 /\ \A i \in 1..Len(text) : text[i] \in HexDigits
    THEN Ok([i \in 1..(Len(text) \div 2) |->
                16 * HexValue(text[2 * i - 1]) + HexValue(text[2 * i])])
    ELSE Err("hex_decode")

\* hex::encode
hex_encode(bytes) ==
    [i \in 1..(2 * Len(bytes)) |->
        IF i % 2 = 1 THEN HexChar(bytes[(i + 1) \div 2] \div 16)
        ELSE HexChar(bytes[i \div 2] % 16)]

parse_bytes_literal(value) ==
    IF value.t = "string"
    THEN LET text == Trim(value.s)
         IN  IF ~StartsWith(text, <<"0", "x">>) THEN Err("hex_without_0x_prefix")
             ELSE hex_decode(SubSeq(text, 3, Len(text)))
    ELSE IF value.t = "array"
    THEN IF \E i \in 1..Len(value.items) : ~parse_number(value.items[i], FALSE, 8).ok
         THEN Err("element_not_u8")
         ELSE Ok([i \in 1..Len(value.items) |->
                    DecimalValue(parse_number(value.items[i], FALSE, 8).v.mag)])
    ELSE Err("expected_vector_u8_literal")

\* AccountAddress::from_hex: exactly 64 hex digits.
AccountAddress_from_hex(text) ==
    IF Len(text) = 64 /\ \A i \in 1..64 : text[i] \in HexDigits
    THEN Ok(StripLeadingZeros([i \in 1..64 |-> LowerHex(text[i])]))
    ELSE Err("invalid_address")

\* AccountAddress::from_hex_literal: `0x` and at most 64 hex digits, padded
\* with zeros on the left.
AccountAddress_from_hex_literal(text) ==
    IF /\ StartsWith(text, <<"0", "x">>)
       /\ Len(text) <= 66
       /\ \A i \in 3..Len(text) : text[i] \in HexDigits
    THEN Ok(StripLeadingZeros(<<"0">> \o [i \in 1..(Len(text) - 2) |-> LowerHex(text[i + 2])]))
    ELSE Err("invalid_address")

\* <AccountAddress as FromStr>::from_str: 0xADDRESS or ADDRESS.
AccountAddress_from_str(text) ==
    IF AccountAddress_from_hex_literal(text).ok
    THEN AccountAddress_from_hex_literal(text)
    ELSE AccountAddress_from_hex(text)

\* AccountAddress::to_hex_literal
to_hex_literal(address) == <<"0", "x">> \o address

parse_address_literal(value) ==
    IF value.t # "string" THEN Err("expected_address_literal")
    ELSE LET raw == Trim(value.s)
         IN  IF StartsWith(raw, <<"0", "x">>)
             THEN IF AccountAddress_from_hex_literal(raw).ok
                  THEN AccountAddress_from_hex_literal(raw)
                  ELSE AccountAddress_from_str(raw)
             ELSE AccountAddress_from_str(raw)

(***************************************************************************)
(* BCS (MoveValue::simple_serialize).                                      *)
(***************************************************************************)
\* The digits 1..i of a decimal magnitude, modulo 256; 10^8 is a multiple
\* of 256, so the last eight of them decide.
PrefixMod256(digits, i) ==
    LET term(k) == IF i - k >= 1 THEN DigitValue(digits[i - k]) * 10^k ELSE 0
    IN  (term(0) + term(1) + term(2) + term(3)
           + term(4) + term(5) + term(6) + term(7)) % 256

\* digits / 256 and digits % 256, by long division.
DivMod256(digits) ==
    LET n == Len(digits)
    IN  [q |-> StripLeadingZeros(
                 [i \in 1..n |->
                    DigitChar((PrefixMod256(digits, i - 1) * 10
                               + DigitValue(digits[i])) \div 256)]),
         r |-> PrefixMod256(digits, n)]

\* The n low bytes of a magnitude, least significant first.
RECURSIVE LittleEndian(_, _)
LittleEndian(mag, n) ==
    IF n = 0 THEN <<>>
    ELSE LET d == DivMod256(mag)
         IN  <<d.r>> \o LittleEndian(d.q, n - 1)

\* Two's complement negation of a little-endian number: the bytes below the
\* lowest non-zero byte stay zero, that byte is negated, those above are
\* inverted.
NegateBytes(bytes) ==
    [i \in 1..Len(bytes) |->
        IF \A j \in 1..(i - 1) : bytes[j] = 0
        THEN (256 - bytes[i]) % 256
        ELSE 255 - bytes[i]]

\* A fixed-width integer: little-endian, two's complement when negative.
SerializeInteger(n, bits) ==
    IF n.neg THEN NegateBytes(LittleEndian(n.mag, bits \div 8))
    ELSE LittleEndian(n.mag, bits \div 8)

\* ULEB128, the length prefix of a BCS sequence.
RECURSIVE Uleb128(_)
Uleb128(n) == IF n < 128 THEN <<n>> ELSE <<128 + (n % 128)>> \o Uleb128(n \div 128)

\* The UTF-8 byte of an ASCII character (the characters the literals of the
\* model are written with).
LowerLetters ==
    <<"a", "b", "c", "d", "e", "f", "g", "h", "i", "j", "k", "l", "m",
      "n", "o", "p", "q", "r", "s", "t", "u", "v", "w", "x", "y", "z">>
UpperLetters ==
    <<"A", "B", "C", "D", "E", "F", "G", "H", "I", "J", "K", "L", "M",
      "N", "O", "P", "Q", "R", "S", "T", "U", "V", "W", "X", "Y", "Z">>

Utf8Byte(ch) ==
    CASE ch \in AsciiDigits -> 48 + DigitValue(ch)
      [] \E i \in 1..26 : LowerLetters[i] = ch ->
            96 + CHOOSE i \in 1..26 : LowerLetters[i] = ch
      [] \E i \in 1..26 : UpperLetters[i] = ch ->
            64 + CHOOSE i \in 1..26 : UpperLetters[i] = ch
      [] ch = " " -> 32 [] ch = "+" -> 43 [] ch = "-" -> 45 [] ch = "." -> 46
      [] ch = ":" -> 58 [] ch = "<" -> 60 [] ch = ">" -> 62 [] ch = "_" -> 95

\* String::into_bytes
into_bytes(text) == [i \in 1..Len(text) |-> Utf8Byte(text[i])]

\* serialize_move_value on MoveValue::Bool, ::U8 .. ::I256, ::Address and
\* ::vector_u8.
SerializeBool(b) == IF b THEN <<1>> ELSE <<0>>
SerializeAddress(address) ==
    LET padded == [i \in 1..(64 - Len(address)) |-> "0"] \o address
    IN  hex_decode(padded).v
SerializeVectorU8(bytes) == Uleb128(Len(bytes)) \o bytes

(***************************************************************************)
(* The type dispatch shared by the two encoders.                           *)
(***************************************************************************)
\* normalize_type_name
normalize_type_name(value) == SelectSeq(value, LAMBDA ch : ch \notin WhitespaceChars)

\* Mutant: no type is an Object type.
is_object_type_Never(value) == FALSE

is_object_type(value) ==
    /\ StartsWith(value, <<"0", "x", "1", ":", ":", "o", "b", "j", "e", "c", "t", ":",
            ":", "O", "b", "j", "e", "c", "t", "<">>)
    /\ EndsWith(value, <<">">>)

is_string_wrapper_type(value) ==
    value \in {<<"0", "x", "1", ":", ":", "s", "t", "r", "i", "n", "g", ":", ":", "S",
            "t", "r", "i", "n", "g">>, <<"0", "x", "1", ":", ":", "a", "s", "c", "i", "i",
            ":", ":", "S", "t", "r", "i", "n", "g">>}

\* The integer type names of the dispatch table: <<name, signed, bits>>.
IntegerTypes ==
    {<<<<"u", "8">>, FALSE, 8>>, <<<<"u", "1", "6">>, FALSE, 16>>, <<<<"u", "3",
            "2">>, FALSE, 32>>,
     <<<<"u", "6", "4">>, FALSE, 64>>, <<<<"u", "1", "2", "8">>, FALSE, 128>>, <<<<"u",
             "2", "5", "6">>, FALSE, 256>>,
     <<<<"i", "8">>, TRUE, 8>>, <<<<"i", "1", "6">>, TRUE, 16>>, <<<<"i", "3",
             "2">>, TRUE, 32>>,
     <<<<"i", "6", "4">>, TRUE, 64>>, <<<<"i", "1", "2", "8">>, TRUE, 128>>, <<<<"i", "2",
             "5", "6">>, TRUE, 256>>}

IsIntegerType(name) == \E ty \in IntegerTypes : ty[1] = name
IntegerType(name) == CHOOSE ty \in IntegerTypes : ty[1] = name

\* The first lines of both encoders: the type name without whitespace and
\* without its leading `&mut`s or `&`s.
StripReference(expected_param) ==
    LET expected == normalize_type_name(expected_param)
    IN  IF StartsWith(expected, <<"&", "m", "u", "t">>)
        THEN TrimStartMatches(expected, <<"&", "m", "u", "t">>)
        ELSE IF StartsWith(expected, <<"&">>)
        THEN TrimStartMatches(expected, <<"&">>)
        ELSE expected

\* Mutant: the binary encoder has no arm for the string wrapper types.
encode_literal_NoStrings(expected_param, value) ==
    LET expected == StripReference(expected_param)
    IN  IF \E i \in 1..Len(expected) : expected[i] = "&"
        THEN Err("unsupported_literal_parameter_type")
        ELSE IF expected = <<"b", "o", "o", "l">>
        THEN IF ~parse_bool_literal(value).ok THEN parse_bool_literal(value)
             ELSE Ok(SerializeBool(parse_bool_literal(value).v))
        ELSE IF IsIntegerType(expected)
        THEN LET ty == IntegerType(expected)
                 n == parse_number(value, ty[2], ty[3])
             IN  IF ~n.ok THEN n ELSE Ok(SerializeInteger(n.v, ty[3]))
        ELSE IF expected = <<"a", "d", "d", "r", "e", "s", "s">>
        THEN IF ~parse_address_literal(value).ok THEN parse_address_literal(value)
             ELSE Ok(SerializeAddress(parse_address_literal(value).v))
        ELSE IF expected = <<"v", "e", "c", "t", "o", "r", "<", "u", "8", ">">>
        THEN IF ~parse_bytes_literal(value).ok THEN parse_bytes_literal(value)
             ELSE Ok(SerializeVectorU8(parse_bytes_literal(value).v))
        ELSE IF is_object_type(expected)
        THEN IF ~parse_address_literal(value).ok THEN parse_address_literal(value)
             ELSE Ok(SerializeAddress(parse_address_literal(value).v))
        ELSE Err("unsupported_literal_parameter_type")

encode_literal(expected_param, value) ==
    LET expected == StripReference(expected_param)
    IN  IF \E i \in 1..Len(expected) : expected[i] = "&"
        THEN Err("unsupported_literal_parameter_type")
        ELSE IF expected = <<"b", "o", "o", "l">>
        THEN IF ~parse_bool_literal(value).ok THEN parse_bool_literal(value)
             ELSE Ok(SerializeBool(parse_bool_literal(value).v))
        ELSE IF IsIntegerType(expected)
        THEN LET ty == IntegerType(expected)
                 n == parse_number(value, ty[2], ty[3])
             IN  IF ~n.ok THEN n ELSE Ok(SerializeInteger(n.v, ty[3]))
        ELSE IF expected = <<"a", "d", "d", "r", "e", "s", "s">>
        THEN IF ~parse_address_literal(value).ok THEN parse_address_literal(value)
             ELSE Ok(SerializeAddress(parse_address_literal(value).v))
        ELSE IF expected = <<"v", "e", "c", "t", "o", "r", "<", "u", "8", ">">>
        THEN IF ~parse_bytes_literal(value).ok THEN parse_bytes_literal(value)
             ELSE Ok(SerializeVectorU8(parse_bytes_literal(value).v))
        ELSE IF is_object_type(expected)
        THEN IF ~parse_address_literal(value).ok THEN parse_address_literal(value)
             ELSE Ok(SerializeAddress(parse_address_literal(value).v))
        ELSE IF is_string_wrapper_type(expected)
        THEN IF ~parse_string_literal(value).ok THEN parse_string_literal(value)
             ELSE Ok(SerializeVectorU8(into_bytes(parse_string_literal(value).v)))
        ELSE Err("unsupported_literal_parameter_type")

\* Mutant: every integer type is normalized to a JSON number.
normalize_literal_for_script_payload_AllNumbers(expected_param, value) ==
    LET expected == StripReference(expected_param)
    IN  IF \E i \in 1..Len(expected) : expected[i] = "&"
        THEN Err("unsupported_script_payload_literal_parameter_type")
        ELSE IF expected = <<"b", "o", "o", "l">>
        THEN IF ~parse_bool_literal(value).ok THEN parse_bool_literal(value)
             ELSE Ok(JBool(parse_bool_literal(value).v))
        ELSE IF IsIntegerType(expected)
        THEN LET ty == IntegerType(expected)
                 n == parse_number(value, ty[2], ty[3])
             IN  IF ~n.ok THEN n
                 ELSE Ok(JNumber(IntegerToString(n.v)))
        ELSE IF expected = <<"a", "d", "d", "r", "e", "s", "s">>
        THEN IF ~parse_address_literal(value).ok THEN parse_address_literal(value)
             ELSE Ok(JString(to_hex_literal(parse_address_literal(value).v)))
        ELSE IF expected = <<"v", "e", "c", "t", "o", "r", "<", "u", "8", ">">>
        THEN IF ~parse_bytes_literal(value).ok THEN parse_bytes_literal(value)
             ELSE Ok(JString(<<"0", "x">> \o hex_encode(parse_bytes_literal(value).v)))
        ELSE IF is_object_type(expected)
        THEN IF ~parse_address_literal(value).ok THEN parse_address_literal(value)
             ELSE Ok(JString(to_hex_literal(parse_address_literal(value).v)))
        ELSE IF is_string_wrapper_type(expected)
        THEN IF ~parse_string_literal(value).ok THEN parse_string_literal(value)
             ELSE Ok(JString(parse_string_literal(value).v))
        ELSE Err("unsupported_literal_parameter_type")

\* Mutant: the bytes are normalized to hex digits without the `0x` prefix.
normalize_literal_for_script_payload_BareHex(expected_param, value) ==
    LET expected == StripReference(expected_param)
    IN  IF \E i \in 1..Len(expected) : expected[i] = "&"
        THEN Err("unsupported_script_payload_literal_parameter_type")
        ELSE IF expected = <<"b", "o", "o", "l">>
        THEN IF ~parse_bool_literal(value).ok THEN parse_bool_literal(value)
             ELSE Ok(JBool(parse_bool_literal(value).v))
        ELSE IF IsIntegerType(expected)
        THEN LET ty == IntegerType(expected)
                 n == parse_number(value, ty[2], ty[3])
             IN  IF ~n.ok THEN n
                 ELSE IF ty[3] >= 64 THEN Ok(JString(IntegerToString(n.v)))
                 ELSE Ok(JNumber(IntegerToString(n.v)))
        ELSE IF expected = <<"a", "d", "d", "r", "e", "s", "s">>
        THEN IF ~parse_address_literal(value).ok THEN parse_address_literal(value)
             ELSE Ok(JString(to_hex_literal(parse_address_literal(value).v)))
        ELSE IF expected = <<"v", "e", "c", "t", "o", "r", "<", "u", "8", ">">>
        THEN IF ~parse_bytes_literal(value).ok THEN parse_bytes_literal(value)
             ELSE Ok(JString(hex_encode(parse_bytes_literal(value).v)))
        ELSE IF is_object_type(expected)
        THEN IF ~parse_address_literal(value).ok THEN parse_address_literal(value)
             ELSE Ok(JString(to_hex_literal(parse_address_literal(value).v)))
        ELSE IF is_string_wrapper_type(expected)
        THEN IF ~parse_string_literal(value).ok THEN parse_string_literal(value)
             ELSE Ok(JString(parse_string_literal(value).v))
        ELSE Err("unsupported_literal_parameter_type")

normalize_literal_for_script_payload(expected_param, value) ==
    LET expected == StripReference(expected_param)
    IN  IF \E i \in 1..Len(expected) : expected[i] = "&"
        THEN Err("unsupported_script_payload_literal_parameter_type")
        ELSE IF expected = <<"b", "o", "o", "l">>
        THEN IF ~parse_bool_literal(value).ok THEN parse_bool_literal(value)
             ELSE Ok(JBool(parse_bool_literal(value).v))
        ELSE IF IsIntegerType(expected)
        THEN LET ty == IntegerType(expected)
                 n == parse_number(value, ty[2], ty[3])
             IN  IF ~n.ok THEN n
                 ELSE IF ty[3] >= 64 THEN Ok(JString(IntegerToString(n.v)))
                 ELSE Ok(JNumber(IntegerToString(n.v)))
        ELSE IF expected = <<"a", "d", "d", "r", "e", "s", "s">>
        THEN IF ~parse_address_literal(value).ok THEN parse_address_literal(value)
             ELSE Ok(JString(to_hex_literal(parse_address_literal(value).v)))
        ELSE IF expected = <<"v", "e", "c", "t", "o", "r", "<", "u", "8", ">">>
        THEN IF ~parse_bytes_literal(value).ok THEN parse_bytes_literal(value)
             ELSE Ok(JString(<<"0", "x">> \o hex_encode(parse_bytes_literal(value).v)))
        ELSE IF is_object_type(expected)
        THEN IF ~parse_address_literal(value).ok THEN parse_address_literal(value)
             ELSE Ok(JString(to_hex_literal(parse_address_literal(value).v)))
        ELSE IF is_string_wrapper_type(expected)
        THEN IF ~parse_string_literal(value).ok THEN parse_string_literal(value)
             ELSE Ok(JString(parse_string_literal(value).v))
        ELSE Err("unsupported_literal_parameter_type")

(***************************************************************************)
(* SpecEncode: encode_literal and normalize_literal_for_script_payload on  *)
(* every parameter type of ParamTypeCatalogue and every literal of         *)
(* LiteralCatalogue.                                                       *)
(***************************************************************************)
P_address == <<"a", "d", "d", "r", "e", "s", "s">>
P_object_T0 == <<"0", "x", "1", ":", ":", "o", "b", "j", "e", "c", "t", ":", ":", "O",
        "b", "j", "e", "c", "t", "<", "T", "0", ">">>
P_object_metadata == <<"0", "x", "1", ":", ":", "o", "b", "j", "e", "c", "t", ":", ":",
        "O", "b", "j", "e", "c", "t", "<", "0", "x", "1", ":", ":", "f", "u", "n", "g",
        "i", "b", "l", "e", "_", "a", "s", "s", "e", "t", ":", ":", "M", "e", "t",
        "a", "d", "a", "t", "a", ">">>
P_object_spaced == <<"0", "x", "1", ":", ":", "o", "b", "j", "e", "c", "t", ":", ":", "O",
        "b", "j", "e", "c", "t", "<", " ", "u", "8", " ", ">">>

ObjectParamTypes == {P_object_T0, P_object_metadata, P_object_spaced}

ParamTypeCatalogue ==
    {ty[1] : ty \in IntegerTypes}
    \cup ObjectParamTypes
    \cup {<<"b", "o", "o", "l">>, P_address, <<"v", "e", "c", "t", "o", "r", "<", "u",
            "8", ">">>, <<"0", "x", "1", ":", ":", "s", "t", "r", "i", "n", "g", ":", ":",
            "S", "t", "r", "i", "n", "g">>,
          <<"0", "x", "1", ":", ":", "a", "s", "c", "i", "i", ":", ":", "S", "t", "r",
                  "i", "n", "g">>, <<"&", "0", "x", "1", ":", ":", "o", "b", "j", "e",
                  "c", "t", ":", ":", "O", "b", "j", "e", "c", "t", "<", "u", "8",
                  ">">>, <<"0", "x", "2", ":", ":", "o", "b", "j", "e",
                  "c", "t", ":", ":", "O", "b", "j", "e", "c",
                  "t", "<", "u", "8", ">">>,
          <<"&", "s", "i", "g", "n", "e", "r">>, <<"s", "i", "g", "n", "e", "r">>, <<"u",
                  "7">>, <<"&", " ", "u", "6", "4">>, <<"&", "m", "u", "t", " ", "u",
                  "8">>, <<"&", "&", "u", "8">>,
          <<"&", "m", "u", "t", " ", "&", "u", "8">>, <<"&", "m", "u", "t", "&", "m", "u",
                  "t", " ", "u", "8">>, <<"v", "e", "c", "t", "o", "r", " ", "<", "u",
                  "8", ">">>, <<"v", "e", "c", "t", "o", "r", "<", "u", "6", "4",
                  ">">>, <<" ", "a", "d", "d", "r", "e", "s", "s", " ">>}

IntCatalogue ==
    {<<"0">>,
     <<"1">>,
     <<"-", "1">>,
     <<"1", "2", "7">>,
     <<"1", "2", "8">>,
     <<"-", "1", "2", "8">>,
     <<"-", "1", "2", "9">>,
     <<"2", "5", "5">>,
     <<"2", "5", "6">>,
     <<"3", "2", "7", "6", "7">>,
     <<"3", "2", "7", "6", "8">>,
     <<"-", "3", "2", "7", "6", "8">>,
     <<"-", "3", "2", "7", "6", "9">>,
     <<"6", "5", "5", "3", "5">>,
     <<"6", "5", "5", "3", "6">>,
     <<"2", "1", "4", "7", "4", "8", "3", "6", "4", "7">>,
     <<"2", "1", "4", "7", "4", "8", "3", "6", "4", "8">>,
     <<"-", "2", "1", "4", "7", "4", "8", "3", "6", "4", "8">>,
     <<"-", "2", "1", "4", "7", "4", "8", "3", "6", "4", "9">>,
     <<"4", "2", "9", "4", "9", "6", "7", "2", "9", "5">>,
     <<"4", "2", "9", "4", "9", "6", "7", "2", "9", "6">>,
     <<"2", "0", "5", "0", "0", "0", "0", "0", "0">>,
     <<"9", "2", "2", "3", "3", "7", "2", "0", "3", "6", "8", "5", "4", "7", "7", "5",
             "8", "0", "7">>,
     <<"9", "2", "2", "3", "3", "7", "2", "0", "3", "6", "8", "5", "4", "7", "7", "5",
             "8", "0", "8">>,
     <<"-", "9", "2", "2", "3", "3", "7", "2", "0", "3", "6", "8", "5", "4", "7", "7",
             "5", "8", "0", "8">>,
     <<"-", "9", "2", "2", "3", "3", "7", "2", "0", "3", "6", "8", "5", "4", "7", "7",
             "5", "8", "0", "9">>,
     <<"1", "8", "4", "4", "6", "7", "4", "4", "0", "7", "3", "7", "0", "9", "5", "5",
             "1", "6", "1", "5">>,
     <<"1", "8", "4", "4", "6", "7", "4", "4", "0", "7", "3", "7", "0", "9", "5", "5",
             "1", "6", "1", "6">>,
     <<"1", "7", "0", "1", "4", "1", "1", "8", "3", "4", "6", "0", "4", "6", "9", "2",
             "3", "1", "7", "3", "1", "6", "8", "7", "3", "0", "3", "7", "1", "5", "8",
             "8", "4", "1", "0", "5", "7", "2", "7">>,
     <<"1", "7", "0", "1", "4", "1", "1", "8", "3", "4", "6", "0", "4", "6", "9", "2",
             "3", "1", "7", "3", "1", "6", "8", "7", "3", "0", "3", "7", "1", "5", "8",
             "8", "4", "1", "0", "5", "7", "2", "8">>,
     <<"-", "1", "7", "0", "1", "4", "1", "1", "8", "3", "4", "6", "0", "4", "6", "9",
             "2", "3", "1", "7", "3", "1", "6", "8", "7", "3", "0", "3", "7", "1", "5",
             "8", "8", "4", "1", "0", "5", "7", "2", "8">>,
     <<"-", "1", "7", "0", "1", "4", "1", "1", "8", "3", "4", "6", "0", "4", "6", "9",
             "2", "3", "1", "7", "3", "1", "6", "8", "7", "3", "0", "3", "7", "1", "5",
             "8", "8", "4", "1", "0", "5", "7", "2", "9">>,
     <<"3", "4", "0", "2", "8", "2", "3", "6", "6", "9", "2", "0", "9", "3", "8", "4",
             "6", "3", "4", "6", "3", "3", "7", "4", "6", "0", "7", "4", "3", "1", "7",
             "6", "8", "2", "1", "1", "4", "5", "5">>,
     <<"3", "4", "0", "2", "8", "2", "3", "6", "6", "9", "2", "0", "9", "3", "8", "4",
             "6", "3", "4", "6", "3", "3", "7", "4", "6", "0", "7", "4", "3", "1", "7",
             "6", "8", "2", "1", "1", "4", "5", "6">>,
     <<"5", "7", "8", "9", "6", "0", "4", "4", "6", "1", "8", "6", "5", "8", "0", "9",
             "7", "7", "1", "1", "7", "8", "5", "4", "9", "2", "5", "0", "4", "3", "4",
             "3", "9", "5", "3", "9", "2", "6", "6", "3", "4", "9", "9", "2", "3",
             "3", "2", "8", "2", "0", "2", "8", "2", "0", "1", "9", "7",
             "2", "8", "7", "9", "2", "0", "0", "3", "9", "5",
             "6", "5", "6", "4", "8", "1", "9", "9", "6", "7">>,
     <<"5", "7", "8", "9", "6", "0", "4", "4", "6", "1", "8", "6", "5", "8", "0", "9",
             "7", "7", "1", "1", "7", "8", "5", "4", "9", "2", "5", "0", "4", "3", "4",
             "3", "9", "5", "3", "9", "2", "6", "6", "3", "4", "9", "9", "2", "3",
             "3", "2", "8", "2", "0", "2", "8", "2", "0", "1", "9", "7",
             "2", "8", "7", "9", "2", "0", "0", "3", "9", "5",
             "6", "5", "6", "4", "8", "1", "9", "9", "6", "8">>,
     <<"-", "5", "7", "8", "9", "6", "0", "4", "4", "6", "1", "8", "6", "5", "8", "0",
             "9", "7", "7", "1", "1", "7", "8", "5", "4", "9", "2", "5", "0", "4", "3",
             "4", "3", "9", "5", "3", "9", "2", "6", "6", "3", "4", "9", "9", "2",
             "3", "3", "2", "8", "2", "0", "2", "8", "2", "0", "1", "9",
             "7", "2", "8", "7", "9", "2", "0", "0", "3", "9",
             "5", "6", "5", "6", "4", "8", "1", "9", "9",
             "6", "8">>,
     <<"-", "5", "7", "8", "9", "6", "0", "4", "4", "6", "1", "8", "6", "5", "8", "0",
             "9", "7", "7", "1", "1", "7", "8", "5", "4", "9", "2", "5", "0", "4", "3",
             "4", "3", "9", "5", "3", "9", "2", "6", "6", "3", "4", "9", "9", "2",
             "3", "3", "2", "8", "2", "0", "2", "8", "2", "0", "1", "9",
             "7", "2", "8", "7", "9", "2", "0", "0", "3", "9",
             "5", "6", "5", "6", "4", "8", "1", "9", "9",
             "6", "9">>,
     <<"1", "1", "5", "7", "9", "2", "0", "8", "9", "2", "3", "7", "3", "1", "6", "1",
             "9", "5", "4", "2", "3", "5", "7", "0", "9", "8", "5", "0", "0", "8", "6",
             "8", "7", "9", "0", "7", "8", "5", "3", "2", "6", "9", "9", "8", "4",
             "6", "6", "5", "6", "4", "0", "5", "6", "4", "0", "3", "9",
             "4", "5", "7", "5", "8", "4", "0", "0", "7", "9",
             "1", "3", "1", "2", "9", "6", "3", "9", "9",
             "3", "5">>,
     <<"1", "1", "5", "7", "9", "2", "0", "8", "9", "2", "3", "7", "3", "1", "6", "1",
             "9", "5", "4", "2", "3", "5", "7", "0", "9", "8", "5", "0", "0", "8", "6",
             "8", "7", "9", "0", "7", "8", "5", "3", "2", "6", "9", "9", "8", "4",
             "6", "6", "5", "6", "4", "0", "5", "6", "4", "0", "3", "9",
             "4", "5", "7", "5", "8", "4", "0", "0", "7", "9",
             "1", "3", "1", "2", "9", "6", "3", "9", "9",
             "3", "6">>}

\* What serde_json prints for the f64 nearest to an integer outside
\* i64::MIN..=u64::MAX.
FloatText(v) ==
    CASE v = <<"-", "9", "2", "2", "3", "3", "7", "2", "0", "3", "6", "8", "5", "4", "7",
            "7", "5", "8", "0", "9">> -> <<"-", "9", ".", "2", "2", "3", "3", "7", "2",
            "0", "3", "6", "8", "5", "4", "7", "7", "6", "e", "1", "8">>
      [] v = <<"1", "8", "4", "4", "6", "7", "4", "4", "0", "7", "3", "7", "0", "9", "5",
              "5", "1", "6", "1", "6">> -> <<"1", ".", "8", "4", "4", "6", "7", "4", "4",
              "0", "7", "3", "7", "0", "9", "5", "5", "2", "e", "1", "9">>
      [] v = <<"1", "7", "0", "1", "4", "1", "1", "8", "3", "4", "6", "0", "4", "6", "9",
              "2", "3", "1", "7", "3", "1", "6", "8", "7", "3", "0", "3", "7", "1", "5",
              "8", "8", "4", "1", "0", "5", "7", "2", "7">> -> <<"1", ".", "7",
              "0", "1", "4", "1", "1", "8", "3", "4", "6", "0", "4", "6",
              "9", "2", "3", "e", "3", "8">>
      [] v = <<"1", "7", "0", "1", "4", "1", "1", "8", "3", "4", "6", "0", "4", "6", "9",
              "2", "3", "1", "7", "3", "1", "6", "8", "7", "3", "0", "3", "7", "1", "5",
              "8", "8", "4", "1", "0", "5", "7", "2", "8">> -> <<"1", ".", "7",
              "0", "1", "4", "1", "1", "8", "3", "4", "6", "0", "4", "6",
              "9", "2", "3", "e", "3", "8">>
      [] v = <<"-", "1", "7", "0", "1", "4", "1", "1", "8", "3", "4", "6", "0", "4", "6",
              "9", "2", "3", "1", "7", "3", "1", "6", "8", "7", "3", "0", "3", "7", "1",
              "5", "8", "8", "4", "1", "0", "5", "7", "2", "8">> -> <<"-", "1",
              ".", "7", "0", "1", "4", "1", "1", "8", "3", "4", "6", "0",
              "4", "6", "9", "2", "3", "e", "3", "8">>
      [] v = <<"-", "1", "7", "0", "1", "4", "1", "1", "8", "3", "4", "6", "0", "4", "6",
              "9", "2", "3", "1", "7", "3", "1", "6", "8", "7", "3", "0", "3", "7", "1",
              "5", "8", "8", "4", "1", "0", "5", "7", "2", "9">> -> <<"-", "1",
              ".", "7", "0", "1", "4", "1", "1", "8", "3", "4", "6", "0",
              "4", "6", "9", "2", "3", "e", "3", "8">>
      [] v = <<"3", "4", "0", "2", "8", "2", "3", "6", "6", "9", "2", "0", "9", "3", "8",
              "4", "6", "3", "4", "6", "3", "3", "7", "4", "6", "0", "7", "4", "3", "1",
              "7", "6", "8", "2", "1", "1", "4", "5", "5">> -> <<"3", ".", "4",
              "0", "2", "8", "2", "3", "6", "6", "9", "2", "0", "9", "3",
              "8", "5", "e", "3", "8">>
      [] v = <<"3", "4", "0", "2", "8", "2", "3", "6", "6", "9", "2", "0", "9", "3", "8",
              "4", "6", "3", "4", "6", "3", "3", "7", "4", "6", "0", "7", "4", "3", "1",
              "7", "6", "8", "2", "1", "1", "4", "5", "6">> -> <<"3", ".", "4",
              "0", "2", "8", "2", "3", "6", "6", "9", "2", "0", "9", "3",
              "8", "5", "e", "3", "8">>
      [] v = <<"5", "7", "8", "9", "6", "0", "4", "4", "6", "1", "8", "6", "5", "8", "0",
              "9", "7", "7", "1", "1", "7", "8", "5", "4", "9", "2", "5", "0", "4", "3",
              "4", "3", "9", "5", "3", "9", "2", "6", "6", "3", "4", "9", "9",
              "2", "3", "3", "2", "8", "2", "0", "2", "8", "2", "0", "1",
              "9", "7", "2", "8", "7", "9", "2", "0", "0", "3",
              "9", "5", "6", "5", "6", "4", "8", "1", "9",
              "9", "6", "7">> -> <<"5", ".", "7",
              "8", "9", "6", "0", "4",
              "4", "6", "1", "8",
              "6", "5",
              "8",
              "1", "e", "7", "6">>
      [] v = <<"5", "7", "8", "9", "6", "0", "4", "4", "6", "1", "8", "6", "5", "8", "0",
              "9", "7", "7", "1", "1", "7", "8", "5", "4", "9", "2", "5", "0", "4", "3",
              "4", "3", "9", "5", "3", "9", "2", "6", "6", "3", "4", "9", "9",
              "2", "3", "3", "2", "8", "2", "0", "2", "8", "2", "0", "1",
              "9", "7", "2", "8", "7", "9", "2", "0", "0", "3",
              "9", "5", "6", "5", "6", "4", "8", "1", "9",
              "9", "6", "8">> -> <<"5", ".", "7",
              "8", "9", "6", "0", "4",
              "4", "6", "1", "8",
              "6", "5",
              "8",
              "1", "e", "7", "6">>
      [] v = <<"-", "5", "7", "8", "9", "6", "0", "4", "4", "6", "1", "8", "6", "5", "8",
              "0", "9", "7", "7", "1", "1", "7", "8", "5", "4", "9", "2", "5", "0", "4",
              "3", "4", "3", "9", "5", "3", "9", "2", "6", "6", "3", "4", "9",
              "9", "2", "3", "3", "2", "8", "2", "0", "2", "8", "2", "0",
              "1", "9", "7", "2", "8", "7", "9", "2", "0", "0",
              "3", "9", "5", "6", "5", "6", "4", "8", "1",
              "9", "9", "6", "8">> -> <<"-", "5",
              ".", "7", "8", "9", "6",
              "0", "4", "4", "6",
              "1", "8",
              "6",
              "5", "8", "1", "e", "7", "6">>
      [] v = <<"-", "5", "7", "8", "9", "6", "0", "4", "4", "6", "1", "8", "6", "5", "8",
              "0", "9", "7", "7", "1", "1", "7", "8", "5", "4", "9", "2", "5", "0", "4",
              "3", "4", "3", "9", "5", "3", "9", "2", "6", "6", "3", "4", "9",
              "9", "2", "3", "3", "2", "8", "2", "0", "2", "8", "2", "0",
              "1", "9", "7", "2", "8", "7", "9", "2", "0", "0",
              "3", "9", "5", "6", "5", "6", "4", "8", "1",
              "9", "9", "6", "9">> -> <<"-", "5",
              ".", "7", "8", "9", "6",
              "0", "4", "4", "6",
              "1", "8",
              "6",
              "5", "8", "1", "e", "7", "6">>
      [] v = <<"1", "1", "5", "7", "9", "2", "0", "8", "9", "2", "3", "7", "3", "1", "6",
              "1", "9", "5", "4", "2", "3", "5", "7", "0", "9", "8", "5", "0", "0", "8",
              "6", "8", "7", "9", "0", "7", "8", "5", "3", "2", "6", "9", "9",
              "8", "4", "6", "6", "5", "6", "4", "0", "5", "6", "4", "0",
              "3", "9", "4", "5", "7", "5", "8", "4", "0", "0",
              "7", "9", "1", "3", "1", "2", "9", "6", "3",
              "9", "9", "3", "5">> -> <<"1", ".",
              "1", "5", "7", "9", "2",
              "0", "8", "9", "2",
              "3", "7",
              "3",
              "1", "6", "2", "e", "7", "7">>
      [] v = <<"1", "1", "5", "7", "9", "2", "0", "8", "9", "2", "3", "7", "3", "1", "6",
              "1", "9", "5", "4", "2", "3", "5", "7", "0", "9", "8", "5", "0", "0", "8",
              "6", "8", "7", "9", "0", "7", "8", "5", "3", "2", "6", "9", "9",
              "8", "4", "6", "6", "5", "6", "4", "0", "5", "6", "4", "0",
              "3", "9", "4", "5", "7", "5", "8", "4", "0", "0",
              "7", "9", "1", "3", "1", "2", "9", "6", "3",
              "9", "9", "3", "6">> -> <<"1", ".",
              "1", "5", "7", "9", "2",
              "0", "8", "9", "2",
              "3", "7",
              "3",
              "1", "6", "2", "e", "7", "7">>

\* i64::MIN <= v <= u64::MAX, for a decimal text v.
FitsJsonInteger(v) ==
    IF v[1] = "-" THEN MagLeq(Tail(v), MinSignedMagnitude(64))
    ELSE MagLeq(v, MaxUnsigned(64))

\* The Values the JSON number v is read as: a Number that holds the integer
\* and prints its decimal text; outside i64::MIN..=u64::MAX a Number that
\* holds the nearest f64, unless the build keeps numbers at arbitrary
\* precision.
NumberValues(v) ==
    IF FitsJsonInteger(v) THEN {JNumber(v)}
    ELSE {JNumber(v), JNumber(FloatText(v))}

AddressLiterals ==
    {JString(<<"0", "x", "1">>), JString(<<" ", "0", "x", "1", " ">>), JString(<<"0", "x",
            "0", "1">>), JString(<<"0", "x", "A">>),
     JString(<<"0", "x", "a">>), JString(<<"1">>), JString(<<"0", "x">>), JString(<<"0",
             "x", "g">>),
     JString(<<"0", "0", "0", "0", "0", "0", "0", "0", "0", "0", "0", "0", "0", "0", "0",
             "0", "0", "0", "0", "0", "0", "0", "0", "0", "0", "0", "0", "0", "0", "0",
             "0", "0", "0", "0", "0", "0", "0", "0", "0", "0", "0", "0", "0", "0",
             "0", "0", "0", "0", "0", "0", "0", "0", "0", "0", "0", "0",
             "0", "0", "0", "0", "0", "0", "0", "1">>),
     JString(<<"0", "x", "0", "0", "0", "0", "0", "0", "0", "0", "0", "0", "0", "0", "0",
             "0", "0", "0", "0", "0", "0", "0", "0", "0", "0", "0", "0", "0", "0", "0",
             "0", "0", "0", "0", "0", "0", "0", "0", "0", "0", "0", "0", "0", "0",
             "0", "0", "0", "0", "0", "0", "0", "0", "0", "0", "0", "0",
             "0", "0", "0", "0", "0", "0", "0", "0", "f", "f">>),
     JString(<<"0", "x", "1", "0", "0", "0", "0", "0", "0", "0", "0", "0", "0", "0", "0",
             "0", "0", "0", "0", "0", "0", "0", "0", "0", "0", "0", "0", "0", "0", "0",
             "0", "0", "0", "0", "0", "0", "0", "0", "0", "0", "0", "0", "0", "0",
             "0", "0", "0", "0", "0", "0", "0", "0", "0", "0", "0", "0",
             "0", "0", "0", "0", "0", "0", "0", "0", "0", "f", "f">>)}

BytesLiterals ==
    {JString(<<"0", "x", "0", "0", "f", "f">>), JString(<<"0", "x", "f">>), JString(<<" ",
            "0", "x", "0", "A", " ">>), JString(<<"0", "0", "f", "f">>),
     JArray(<<>>), JArray(<<JNumber(<<"1">>), JNumber(<<"2">>)>>),
     JArray(<<JString(<<"3", "n">>), JNumber(<<"4">>)>>), JArray(<<JNumber(<<"2", "5",
             "6">>)>>),
     JArray(<<JNull>>)}

LiteralCatalogue ==
    {JString(v) : v \in IntCatalogue}
    \cup {JString(v \o <<"n">>) : v \in IntCatalogue}
    \cup UNION {NumberValues(v) : v \in IntCatalogue}
    \cup {JNumber(<<"1", ".", "5">>), JString(<<" ", "7", " ">>), JString(<<"+",
            "5">>), JString(<<"0", "0", "7">>),
          JString(<<>>), JString(<<" ", " ">>), JString(<<"n">>), JString(<<"5", "n", "n">>),
          JString(<<"-", "0">>), JString(<<"5", " ", "n">>), JString(<<"h", "i">>),
          JNull, JBool(TRUE), JBool(FALSE)}
    \cup AddressLiterals
    \cup BytesLiterals

EncodeInit ==
    /\ pc = "encode_start"
    /\ fn_in \in [expected_param : ParamTypeCatalogue, value : LiteralCatalogue]
    /\ fn_out = None
    /\ ResolveIdle
    /\ RunIdle

EncodeLiteral ==
    /\ pc = "encode_start"
    /\ fn_out' = Some([bytes |-> encode_literal(fn_in.expected_param, fn_in.value),
                       payload |-> normalize_literal_for_script_payload(
                                       fn_in.expected_param, fn_in.value)])
    /\ pc' = "encode_done"
    /\ UNCHANGED <<fn_in, resolveVars, runVars>>

\* The encoders applied once more, to the value the script payload carries.
EncodeNormalized ==
    /\ pc = "encode_done"
    /\ fn_out.v.payload.ok
    /\ fn_out' = Some([bytes |-> fn_out.v.bytes,
                       payload |-> fn_out.v.payload,
                       bytes_again |-> encode_literal(fn_in.expected_param,
                                                      fn_out.v.payload.v),
                       payload_again |-> normalize_literal_for_script_payload(
                                             fn_in.expected_param, fn_out.v.payload.v)])
    /\ pc' = "encode_again_done"
    /\ UNCHANGED <<fn_in, resolveVars, runVars>>

EncodeNext == EncodeLiteral \/ EncodeNormalized

SpecEncode == EncodeInit /\ [][EncodeNext]_vars

\* The decimal text v is a value of the integer type <<name, signed, bits>>.
InRange(ty, v) ==
    IF v[1] = "-" THEN ty[2] /\ MagLeq(Tail(v), MinSignedMagnitude(ty[3]))
    ELSE MagLeq(v, IF ty[2] THEN MaxSigned(ty[3]) ELSE MaxUnsigned(ty[3]))

\* The state encodes the plain string literal of a value of its integer type.
EncodesInRangeString ==
    /\ pc = "encode_done"
    /\ IsIntegerType(fn_in.expected_param)
    /\ fn_in.value.t = "string"
    /\ fn_in.value.s \in IntCatalogue
    /\ InRange(IntegerType(fn_in.expected_param), fn_in.value.s)

\* Literal `other` encodes, for the state's type, as the state's literal did.
SameEncoding(other) ==
    /\ encode_literal(fn_in.expected_param, other) = fn_out.v.bytes
    /\ IntegerType(fn_in.expected_param)[3] >= 64 =>
          normalize_literal_for_script_payload(fn_in.expected_param, other)
              = Ok(JString(fn_in.value.s))

(***************************************************************************)
(* C9: for every value v of an integer type the string `<v>n`,   *)
(* the string `<v>` and the JSON number v give the same encode_literal     *)
(* bytes and, for types of 64 bits or more, the same script-payload value, *)
(* the JSON string of v.                                                   *)
(***************************************************************************)
C9_AllFormsAgree ==
    EncodesInRangeString =>
        /\ fn_out.v.bytes.ok
        /\ SameEncoding(fn_in.value)
        /\ SameEncoding(JString(fn_in.value.s \o <<"n">>))
        /\ \A number \in NumberValues(fn_in.value.s) : SameEncoding(number)

(***************************************************************************)
(* The part of C9 that holds: the two string forms agree for every value   *)
(* of the type; the JSON number agrees when the Value holds it as an       *)
(* integer printing the decimal text of v; held as a float it is rejected  *)
(* by both encoders.                                                       *)
(***************************************************************************)
C9_StringAndIntegerFormsAgree ==
    EncodesInRangeString =>
        /\ fn_out.v.bytes.ok
        /\ SameEncoding(fn_in.value)
        /\ SameEncoding(JString(fn_in.value.s \o <<"n">>))
        /\ SameEncoding(JNumber(fn_in.value.s))
        /\ ~FitsJsonInteger(fn_in.value.s) =>
              /\ ~encode_literal(fn_in.expected_param,
                                 JNumber(FloatText(fn_in.value.s))).ok
              /\ ~normalize_literal_for_script_payload(
                      fn_in.expected_param, JNumber(FloatText(fn_in.value.s))).ok

\* "205000000" for u64: the bytes of 0x0C380D40 and the payload string.
C9_Witness ==
    /\ pc = "encode_done"
    /\ fn_in.expected_param = <<"u", "6", "4">>
    /\ fn_in.value = JString(<<"2", "0", "5", "0", "0", "0", "0", "0", "0">>)
    /\ fn_out.v.bytes = Ok(<<64, 13, 56, 12, 0, 0, 0, 0>>)
    /\ encode_literal(<<"u", "6", "4">>, JString(<<"2", "0", "5", "0", "0", "0", "0", "0",
            "0", "n">>)) = fn_out.v.bytes
    /\ fn_out.v.payload = Ok(JString(<<"2", "0", "5", "0", "0", "0", "0", "0", "0">>))

(***************************************************************************)
(* C10: for a parameter type of the form 0x1::object::Object<...> both     *)
(* encoders give, for every literal, what they give for type `address`:    *)
(* the same bytes, the same hex-literal string, the same failures.         *)
(***************************************************************************)
C10_ObjectEncodesAsAddress ==
    (pc = "encode_done" /\ fn_in.expected_param \in ObjectParamTypes) =>
        /\ fn_out.v.bytes = encode_literal(P_address, fn_in.value)
        /\ fn_out.v.payload = normalize_literal_for_script_payload(P_address, fn_in.value)
        /\ fn_out.v.bytes.ok <=> fn_out.v.payload.ok
        /\ fn_out.v.bytes.ok <=> parse_address_literal(fn_in.value).ok

\* Object<T0> with "0x1": the 32 bytes of address 0x1 and the string "0x1".
C10_Witness ==
    /\ pc = "encode_done"
    /\ fn_in.expected_param = P_object_T0
    /\ fn_in.value = JString(<<"0", "x", "1">>)
    /\ fn_out.v.bytes = Ok([i \in 1..32 |-> IF i = 32 THEN 1 ELSE 0])
    /\ fn_out.v.payload = Ok(JString(<<"0", "x", "1">>))

(***************************************************************************)
(* 4.2 - 4.8 The pipeline: run.                                            *)
(***************************************************************************)
\* resolve_steps: the loop of ResolveIter over the whole payload.
RECURSIVE ResolveLoop(_, _, _)
ResolveLoop(payload, n, state) ==
    IF n > Len(payload) THEN Ok(state.resolved)
    ELSE LET r == ResolveIter(state, n - 1, payload[n])
         IN  IF ~r.ok THEN r ELSE ResolveLoop(payload, n + 1, r.v)

\* Mutant: a payload without steps resolves to no steps.
resolve_steps_AllowEmpty(payload) ==
    ResolveLoop(payload, 1, [labels |-> <<>>, resolved |-> <<>>])

resolve_steps(payload) ==
    IF payload = <<>> THEN Err([kind |-> "no_steps"])
    ELSE ResolveLoop(payload, 1, [labels |-> <<>>, resolved |-> <<>>])

\* Mutant: only the struct tag at the top of a type argument is counted.
StructModules_TopLevelOnly(tag) ==
    IF tag.tag = "struct" THEN {tag.module_id} ELSE {}

\* The module ids of the struct tags TypeTag::preorder_traversal_iter visits.
RECURSIVE StructModules(_)
StructModules(tag) ==
    IF tag.tag = "struct"
    THEN {tag.module_id}
         \cup UNION {StructModules(tag.type_args[i]) : i \in 1..Len(tag.type_args)}
    ELSE IF tag.tag = "vector" THEN StructModules(tag.element)
    ELSE {}

\* collect_required_modules, as the set the BTreeSet holds.
collect_required_modules(steps) ==
    IF \E i \in 1..Len(steps) : FirstInvalidTypeArgument(steps[i].type_arguments) # 0
    THEN Err([kind |-> "invalid_type_argument"])
    ELSE Ok({steps[i].function_id.module_id : i \in 1..Len(steps)}
            \cup UNION {UNION {StructModules(TypeTag_from_str(steps[i].type_arguments[k]).v) :
                                  k \in 1..Len(steps[i].type_arguments)} :
                          i \in 1..Len(steps)})

\* str's Ord: byte-wise lexicographic.
StrLess(a, b) ==
    \E i \in 1..Len(b) :
        /\ \A j \in 1..(i - 1) : j <= Len(a) /\ a[j] = b[j]
        /\ \/ i = Len(a) + 1
           \/ i <= Len(a) /\ Utf8Byte(a[i]) < Utf8Byte(b[i])

\* ModuleId's derived Ord: the address (as a number), then the name.
ModuleIdLess(a, b) ==
    \/ Len(a.address) < Len(b.address)
    \/ Len(a.address) = Len(b.address) /\ StrLess(a.address, b.address)
    \/ a.address = b.address /\ StrLess(a.name, b.name)

\* Mutant: the module ids are kept in a list that is not deduplicated.
BTreeSetOrder_Repeating(set) ==
    LET once == [i \in 1..Cardinality(set) |->
                    CHOOSE m \in set : Cardinality({x \in set : ModuleIdLess(x, m)}) = i - 1]
    IN  once \o once

\* The order in which `for module_id in required_modules` visits a BTreeSet.
BTreeSetOrder(set) ==
    [i \in 1..Cardinality(set) |->
        CHOOSE m \in set : Cardinality({x \in set : ModuleIdLess(x, m)}) = i - 1]

\* CallArgument::new_signer(0), CallArgument::new_bytes(bytes), and the
\* handle the engine returns for return value `index` of its call `call`.
SignerArgument == [kind |-> "Signer", index |-> 0]
BytesArgument(bytes) == [kind |-> "Raw", bytes |-> bytes]
ReturnHandle(call, index) == [kind |-> "PreviousResult", call |-> call, index |-> index]

\* The argument-count check of the driver loop.
CheckArgumentCount_Off(step, params) == Ok(params)

CheckArgumentCount(step, params) ==
    IF Len(params) # Len(step.args)
    THEN Err([kind |-> "argument_count_mismatch",
              label |-> step.label,
              expected |-> Len(params),
              provided |-> Len(step.args)])
    ELSE Ok(params)

\* Mutant: a signer argument is taken for any reference-stripped `signer`.
ResolveArgument_AnySigner(step, index, arg, expected_param, returns) ==
    IF arg.kind = "Signer"
    THEN IF StripReference(expected_param) # <<"s", "i", "g", "n", "e", "r">>
         THEN Err([kind |-> "signer_type_mismatch", label |-> step.label,
                   index |-> index, expected_param |-> expected_param])
         ELSE Ok([call_arg |-> SignerArgument, payload |-> None])
    ELSE IF arg.kind = "Literal"
    THEN LET bytes == encode_literal(expected_param, arg.value)
             normalized == normalize_literal_for_script_payload(expected_param, arg.value)
         IN  IF ~bytes.ok
             THEN Err([kind |-> "encode_literal", label |-> step.label,
                       index |-> index, expected_param |-> expected_param,
                       cause |-> bytes.e])
             ELSE IF ~normalized.ok
             THEN Err([kind |-> "normalize_literal", label |-> step.label,
                       index |-> index, cause |-> normalized.e])
             ELSE Ok([call_arg |-> BytesArgument(bytes.v), payload |-> Some(normalized.v)])
    ELSE IF arg.step \notin DOMAIN returns
    THEN Err([kind |-> "unknown_step", label |-> step.label, index |-> index,
              ref_step |-> arg.step])
    ELSE IF arg.return_index >= Len(returns[arg.step])
    THEN Err([kind |-> "return_index_out_of_range", label |-> step.label,
              index |-> index, ref_step |-> arg.step,
              return_index |-> arg.return_index,
              available |-> Len(returns[arg.step])])
    ELSE Ok([call_arg |-> returns[arg.step][arg.return_index + 1], payload |-> None])

\* Mutant: a reference takes the first handle of the referenced step,
\* whatever its return index.
ResolveArgument_FirstHandle(step, index, arg, expected_param, returns) ==
    IF arg.kind = "Signer"
    THEN IF normalize_type_name(expected_param) # <<"&", "s", "i", "g", "n", "e", "r">>
         THEN Err([kind |-> "signer_type_mismatch", label |-> step.label,
                   index |-> index, expected_param |-> expected_param])
         ELSE Ok([call_arg |-> SignerArgument, payload |-> None])
    ELSE IF arg.kind = "Literal"
    THEN LET bytes == encode_literal(expected_param, arg.value)
             normalized == normalize_literal_for_script_payload(expected_param, arg.value)
         IN  IF ~bytes.ok
             THEN Err([kind |-> "encode_literal", label |-> step.label,
                       index |-> index, expected_param |-> expected_param,
                       cause |-> bytes.e])
             ELSE IF ~normalized.ok
             THEN Err([kind |-> "normalize_literal", label |-> step.label,
                       index |-> index, cause |-> normalized.e])
             ELSE Ok([call_arg |-> BytesArgument(bytes.v), payload |-> Some(normalized.v)])
    ELSE IF arg.step \notin DOMAIN returns
    THEN Err([kind |-> "unknown_step", label |-> step.label, index |-> index,
              ref_step |-> arg.step])
    ELSE IF Len(returns[arg.step]) = 0
    THEN Err([kind |-> "return_index_out_of_range", label |-> step.label,
              index |-> index, ref_step |-> arg.step,
              return_index |-> arg.return_index,
              available |-> Len(returns[arg.step])])
    ELSE Ok([call_arg |-> returns[arg.step][1], payload |-> None])

\* One turn of the `for (index, (arg, expected_param))` loop: the
\* CallArgument and the payload_arguments entry it adds, if any.
ResolveArgument(step, index, arg, expected_param, returns) ==
    IF arg.kind = "Signer"
    THEN IF normalize_type_name(expected_param) # <<"&", "s", "i", "g", "n", "e", "r">>
         THEN Err([kind |-> "signer_type_mismatch", label |-> step.label,
                   index |-> index, expected_param |-> expected_param])
         ELSE Ok([call_arg |-> SignerArgument, payload |-> None])
    ELSE IF arg.kind = "Literal"
    THEN LET bytes == encode_literal(expected_param, arg.value)
             normalized == normalize_literal_for_script_payload(expected_param, arg.value)
         IN  IF ~bytes.ok
             THEN Err([kind |-> "encode_literal", label |-> step.label,
                       index |-> index, expected_param |-> expected_param,
                       cause |-> bytes.e])
             ELSE IF ~normalized.ok
             THEN Err([kind |-> "normalize_literal", label |-> step.label,
                       index |-> index, cause |-> normalized.e])
             ELSE Ok([call_arg |-> BytesArgument(bytes.v), payload |-> Some(normalized.v)])
    ELSE IF arg.step \notin DOMAIN returns
    THEN Err([kind |-> "unknown_step", label |-> step.label, index |-> index,
              ref_step |-> arg.step])
    ELSE IF arg.return_index >= Len(returns[arg.step])
    THEN Err([kind |-> "return_index_out_of_range", label |-> step.label,
              index |-> index, ref_step |-> arg.step,
              return_index |-> arg.return_index,
              available |-> Len(returns[arg.step])])
    ELSE Ok([call_arg |-> returns[arg.step][arg.return_index + 1], payload |-> None])

Min(a, b) == IF a < b THEN a ELSE b
(***************************************************************************)
(* Spec: run on every payload of at most two steps of the catalogue,       *)
(* against every answer of the node and of the composition engine.         *)
(***************************************************************************)
MaxReturns == 2

RunParamLists ==
    {<<>>, <<P_ref_signer>>, <<P_u64>>, <<P_ref_signer, P_u64>>, <<P_T0>>,
     <<<<"b", "o", "o", "l">>, P_u64>>,
     <<<<"s", "i", "g", "n", "e", "r">>>>,
     <<<<"&", "m", "u", "t", " ", "s", "i", "g", "n", "e", "r">>>>,
     <<<<"&", " ", "s", "i", "g", "n", "e", "r">>>>,
     <<<<"a", "d", "d", "r", "e", "s", "s">>>>}

NoFunctions == [name \in {} |-> <<>>]

\* The ModuleInfos fetch_module_info can build from the node's answer: no
\* ABI, or an ABI exposing `f` with one of the parameter lists.
ModuleInfoCatalogue(module_id) ==
    IF module_id = MODULE_0x1_m
    THEN {[bytecode |-> <<>>, functions |-> NoFunctions]}
         \cup {[bytecode |-> <<>>, functions |-> (FN_f :> params)] :
                  params \in RunParamLists}
    ELSE {[bytecode |-> <<>>, functions |-> NoFunctions]}

RunArgLists ==
    {<<>>,
     <<[kind |-> "Signer"]>>,
     <<[kind |-> "Literal", value |-> JString(<<"7">>)]>>,
     <<[kind |-> "Ref", step |-> <<"a">>, return_index |-> 0]>>,
     <<[kind |-> "Ref", step |-> <<"a">>, return_index |-> 1]>>,
     <<[kind |-> "Signer"], [kind |-> "Literal", value |-> JString(<<"7">>)]>>,
     <<[kind |-> "Literal", value |-> JBool(TRUE)],
       [kind |-> "Ref", step |-> <<"a">>, return_index |-> 1]>>}

RunStepCatalogue ==
    {[label |-> label, function |-> F_ok, type_arguments |-> type_arguments,
      args |-> args] :
        label \in {<<"a">>, <<"b">>},
        type_arguments \in {<<>>, <<TA_u8>>, <<TA_T0Coin>>, <<TA_Coin>>},
        args \in RunArgLists}

\* The JSON text of a payload, as the Value serde_json reads from it.
ArgJson(arg) ==
    IF arg.kind = "Signer" THEN JObject([k \in {"kind"} |-> K_signer])
    ELSE IF arg.kind = "Literal"
    THEN JObject([k \in {"kind", "value"} |-> IF k = "kind" THEN K_literal ELSE arg.value])
    ELSE JObject([k \in {"kind", "step", "returnIndex"} |->
                    CASE k = "kind" -> K_ref
                      [] k = "step" -> JString(arg.step)
                      [] OTHER -> JNumber(<<DigitChar(arg.return_index)>>)])

StepJson(step) ==
    JObject([k \in {"label", "function", "typeArguments", "args"} |->
                CASE k = "label" -> JString(step.label)
                  [] k = "function" -> JString(step.function)
                  [] k = "typeArguments" ->
                        JArray([i \in 1..Len(step.type_arguments) |->
                                   JString(step.type_arguments[i])])
                  [] OTHER -> JArray([i \in 1..Len(step.args) |-> ArgJson(step.args[i])])])

PayloadJson(steps) == JArray([i \in 1..Len(steps) |-> StepJson(steps[i])])

\* A payload whose first label is written with a leading blank and whose
\* second step refers to it by its trimmed name.
SpacedLabelPayload ==
    <<[label |-> <<" ", "a">>, function |-> F_ok, type_arguments |-> <<>>,
       args |-> <<[kind |-> "Literal", value |-> JString(<<"7">>)]>>],
      [label |-> <<"b">>, function |-> F_ok, type_arguments |-> <<>>,
       args |-> <<[kind |-> "Ref", step |-> <<"a">>, return_index |-> 0]>>]>>

\* The payloads of no, one and two steps of the catalogue.
RunPayloads ==
    {<<>>, SpacedLabelPayload} \cup {<<s>> : s \in RunStepCatalogue}
    \cup {<<s, t>> : s, t \in RunStepCatalogue}

RunInputs ==
    {Err([kind |-> "invalid_json"]), Ok(JNull),
     Ok(JObject([k \in {"steps"} |-> JArray(<<>>)]))}
    \cup {Ok(PayloadJson(steps)) : steps \in RunPayloads}

Init ==
    /\ pc = "read_payload"
    /\ stdin \in RunInputs
    /\ cli \in [emit_script_payload : BOOLEAN]
    /\ FnIdle
    /\ payload_steps = <<>>
    /\ resolved = <<>>
    /\ labels = <<>>
    /\ err = None
    /\ required_modules = <<>>
    /\ modules = <<>>
    /\ fetched = <<>>
    /\ stored = <<>>
    /\ step_index = 0
    /\ expected_params = <<>>
    /\ call_args = <<>>
    /\ returns_by_label = <<>>
    /\ payload_arguments = <<>>
    /\ calls = <<>>
    /\ script = None
    /\ output = None

\* `bail!` and `?`: the run ends with the error.
Fail(e) == pc' = "failed" /\ err' = Some(e)

\* read_payload_from_stdin
ReadPayload ==
    /\ pc = "read_payload"
    /\ IF ~stdin.ok
       THEN Fail(stdin.e) /\ UNCHANGED payload_steps
       ELSE IF ~parse_steps_payload(stdin.v).ok
       THEN Fail(parse_steps_payload(stdin.v).e) /\ UNCHANGED payload_steps
       ELSE /\ payload_steps' = parse_steps_payload(stdin.v).v
            /\ pc' = "resolve_steps"
            /\ UNCHANGED err
    /\ UNCHANGED <<fnVars, resolved, labels, runVars>>

\* resolve_steps(payload_steps)?
RunResolveSteps ==
    /\ pc = "resolve_steps"
    /\ IF ~resolve_steps(payload_steps).ok
       THEN Fail(resolve_steps(payload_steps).e) /\ UNCHANGED resolved
       ELSE /\ resolved' = resolve_steps(payload_steps).v
            /\ pc' = "collect_required_modules"
            /\ UNCHANGED err
    /\ UNCHANGED <<fnVars, payload_steps, labels, runVars>>

\* collect_required_modules(&steps)?, then AptosClient::new(&cli.rpc_url)?,
\* which rejects an unusable URL.
CollectRequiredModules ==
    /\ pc = "collect_required_modules"
    /\ IF ~collect_required_modules(resolved).ok
       THEN Fail(collect_required_modules(resolved).e) /\ UNCHANGED required_modules
       ELSE \E client_ok \in BOOLEAN :
              IF ~client_ok
              THEN Fail([kind |-> "client"]) /\ UNCHANGED required_modules
              ELSE /\ required_modules' =
                          BTreeSetOrder(collect_required_modules(resolved).v)
                   /\ pc' = "fetch_loop"
                   /\ UNCHANGED err
    /\ UNCHANGED <<fnVars, payload_steps, resolved, labels, stdin, cli, modules,
                   fetched, stored, step_index, expected_params, call_args,
                   returns_by_label, payload_arguments, calls, script, output>>

\* Mutant: the driver loop starts as soon as one module is stored.
FetchModule_DriverAfterFirstStore ==
    /\ pc = "fetch_loop"
    /\ Len(stored) < Len(required_modules)
    /\ LET module_id == required_modules[Len(stored) + 1]
       IN  /\ fetched' = Append(fetched, module_id)
           /\ \E answer \in {"fetch_failed", "store_failed", "stored"},
                 module_info \in ModuleInfoCatalogue(module_id) :
                 IF answer = "fetch_failed"
                 THEN /\ Fail([kind |-> "fetch_module", module_id |-> module_id])
                      /\ UNCHANGED <<stored, modules>>
                 ELSE IF answer = "store_failed"
                 THEN /\ Fail([kind |-> "store_module", module_id |-> module_id])
                      /\ UNCHANGED <<stored, modules>>
                 ELSE /\ stored' = Append(stored, module_id)
                      /\ modules' = (module_id :> module_info) @@ modules
                      /\ pc' = "driver_loop"
                      /\ UNCHANGED err
    /\ UNCHANGED <<fnVars, payload_steps, resolved, labels, stdin, cli,
                   required_modules, step_index, expected_params, call_args,
                   returns_by_label, payload_arguments, calls, script, output>>

\* One turn of `for module_id in required_modules`: the fetch can fail, the
\* engine can refuse the bytecode.
FetchModule ==
    /\ pc = "fetch_loop"
    /\ Len(stored) < Len(required_modules)
    /\ LET module_id == required_modules[Len(stored) + 1]
       IN  /\ fetched' = Append(fetched, module_id)
           /\ \E answer \in {"fetch_failed", "store_failed", "stored"},
                 module_info \in ModuleInfoCatalogue(module_id) :
                 IF answer = "fetch_failed"
                 THEN /\ Fail([kind |-> "fetch_module", module_id |-> module_id])
                      /\ UNCHANGED <<stored, modules>>
                 ELSE IF answer = "store_failed"
                 THEN /\ Fail([kind |-> "store_module", module_id |-> module_id])
                      /\ UNCHANGED <<stored, modules>>
                 ELSE /\ stored' = Append(stored, module_id)
                      /\ modules' = (module_id :> module_info) @@ modules
                      /\ pc' = IF Len(stored') = Len(required_modules)
                               THEN "driver_loop" ELSE "fetch_loop"
                      /\ UNCHANGED err
    /\ UNCHANGED <<fnVars, payload_steps, resolved, labels, stdin, cli,
                   required_modules, step_index, expected_params, call_args,
                   returns_by_label, payload_arguments, calls, script, output>>

\* The head of the driver loop body: the module lookup, the parameter
\* resolution and the argument-count check.
BeginStep ==
    /\ pc = "driver_loop"
    /\ step_index < Len(resolved)
    /\ LET step == resolved[step_index + 1]
           module_id == step.function_id.module_id
           params == IF module_id \in DOMAIN modules
                     THEN resolve_function_params(step, modules[module_id])
                     ELSE Err([kind |-> "module_not_loaded", module_id |-> module_id])
           checked == IF params.ok THEN CheckArgumentCount(step, params.v) ELSE params
       IN  IF ~checked.ok
           THEN Fail(checked.e) /\ UNCHANGED <<expected_params, call_args>>
           ELSE /\ expected_params' = checked.v
                /\ call_args' = <<>>
                /\ pc' = "arg_loop"
                /\ UNCHANGED err
    /\ UNCHANGED <<fnVars, payload_steps, resolved, labels, stdin, cli,
                   required_modules, modules, fetched, stored, step_index,
                   returns_by_label, payload_arguments, calls, script, output>>

\* Mutant: a literal argument adds no entry to payload_arguments.
ProcessArg_NoPayloadEntry ==
    /\ pc = "arg_loop"
    /\ LET step == resolved[step_index + 1]
           index == Len(call_args)
       IN  /\ index < Min(Len(step.args), Len(expected_params))
           /\ LET r == ResolveArgument(step, index, step.args[index + 1],
                                       expected_params[index + 1], returns_by_label)
              IN  IF ~r.ok
                  THEN /\ Fail(r.e)
                       \* encode_literal succeeded and the normalization
                       \* failed: nothing was pushed.
                       /\ UNCHANGED <<call_args, payload_arguments>>
                  ELSE /\ call_args' = Append(call_args, r.v.call_arg)
                       /\ payload_arguments' = payload_arguments
                       /\ UNCHANGED <<pc, err>>
    /\ UNCHANGED <<fnVars, payload_steps, resolved, labels, stdin, cli,
                   required_modules, modules, fetched, stored, step_index,
                   expected_params, returns_by_label, calls, script, output>>

\* One turn of the argument loop, over step.args zipped with
\* expected_params.
ProcessArg ==
    /\ pc = "arg_loop"
    /\ LET step == resolved[step_index + 1]
           index == Len(call_args)
       IN  /\ index < Min(Len(step.args), Len(expected_params))
           /\ LET r == ResolveArgument(step, index, step.args[index + 1],
                                       expected_params[index + 1], returns_by_label)
              IN  IF ~r.ok
                  THEN /\ Fail(r.e)
                       \* encode_literal succeeded and the normalization
                       \* failed: nothing was pushed.
                       /\ UNCHANGED <<call_args, payload_arguments>>
                  ELSE /\ call_args' = Append(call_args, r.v.call_arg)
                       /\ payload_arguments' =
                              IF r.v.payload.some
                              THEN Append(payload_arguments, r.v.payload.v)
                              ELSE payload_arguments
                       /\ UNCHANGED <<pc, err>>
    /\ UNCHANGED <<fnVars, payload_steps, resolved, labels, stdin, cli,
                   required_modules, modules, fetched, stored, step_index,
                   expected_params, returns_by_label, calls, script, output>>

\* Mutant: a step the engine rejects is skipped and the loop goes on.
SubmitStep_SkipsRejected ==
    /\ pc = "arg_loop"
    /\ LET step == resolved[step_index + 1]
       IN  /\ Len(call_args) = Min(Len(step.args), Len(expected_params))
           /\ calls' = Append(calls, [module |-> step.function_id.module_id,
                                      function |-> step.function_id.function,
                                      ty_args |-> step.type_arguments,
                                      args |-> call_args])
           /\ \E accepted \in BOOLEAN, count \in 0..MaxReturns :
                 /\ returns_by_label' =
                        IF accepted
                        THEN (step.label :>
                                 [i \in 1..count |-> ReturnHandle(Len(calls), i - 1)])
                             @@ returns_by_label
                        ELSE returns_by_label
                 /\ step_index' = step_index + 1
                 /\ pc' = IF step_index' = Len(resolved)
                          THEN "generate" ELSE "driver_loop"
                 /\ UNCHANGED err
    /\ UNCHANGED <<fnVars, payload_steps, resolved, labels, stdin, cli,
                   required_modules, modules, fetched, stored, expected_params,
                   call_args, payload_arguments, script, output>>

\* Mutant: the handles are stored under the name of the function called.
SubmitStep_KeyedByFunction ==
    /\ pc = "arg_loop"
    /\ LET step == resolved[step_index + 1]
       IN  /\ Len(call_args) = Min(Len(step.args), Len(expected_params))
           /\ calls' = Append(calls, [module |-> step.function_id.module_id,
                                      function |-> step.function_id.function,
                                      ty_args |-> step.type_arguments,
                                      args |-> call_args])
           /\ \E accepted \in BOOLEAN, count \in 0..MaxReturns :
                 IF ~accepted
                 THEN /\ Fail([kind |-> "composer_rejected", label |-> step.label])
                      /\ UNCHANGED <<returns_by_label, step_index>>
                 ELSE /\ returns_by_label' =
                              (step.function_id.function :>
                                  [i \in 1..count |-> ReturnHandle(Len(calls), i - 1)])
                              @@ returns_by_label
                      /\ step_index' = step_index + 1
                      /\ pc' = IF step_index' = Len(resolved)
                               THEN "generate" ELSE "driver_loop"
                      /\ UNCHANGED err
    /\ UNCHANGED <<fnVars, payload_steps, resolved, labels, stdin, cli,
                   required_modules, modules, fetched, stored, expected_params,
                   call_args, payload_arguments, script, output>>

\* composer.add_batched_call(...)? and returns_by_label.insert: the engine
\* rejects the call or returns up to MaxReturns handles.
SubmitStep ==
    /\ pc = "arg_loop"
    /\ LET step == resolved[step_index + 1]
       IN  /\ Len(call_args) = Min(Len(step.args), Len(expected_params))
           /\ calls' = Append(calls, [module |-> step.function_id.module_id,
                                      function |-> step.function_id.function,
                                      ty_args |-> step.type_arguments,
                                      args |-> call_args])
           /\ \E accepted \in BOOLEAN, count \in 0..MaxReturns :
                 IF ~accepted
                 THEN /\ Fail([kind |-> "composer_rejected", label |-> step.label])
                      /\ UNCHANGED <<returns_by_label, step_index>>
                 ELSE /\ returns_by_label' =
                              (step.label :>
                                  [i \in 1..count |-> ReturnHandle(Len(calls), i - 1)])
                              @@ returns_by_label
                      /\ step_index' = step_index + 1
                      /\ pc' = IF step_index' = Len(resolved)
                               THEN "generate" ELSE "driver_loop"
                      /\ UNCHANGED err
    /\ UNCHANGED <<fnVars, payload_steps, resolved, labels, stdin, cli,
                   required_modules, modules, fetched, stored, expected_params,
                   call_args, payload_arguments, script, output>>

\* composer.generate_batched_calls(!cli.no_metadata): an error, or the bytes
\* of a script; the model keeps the number of arguments they decode to.
GenerateBatchedCalls ==
    /\ pc = "generate"
    /\ \E generated \in BOOLEAN, script_args \in 0..(Len(payload_arguments) + 1) :
          IF ~generated
          THEN Fail([kind |-> "generate"]) /\ UNCHANGED script
          ELSE /\ script' = Some([args |-> script_args])
               /\ pc' = "emit"
               /\ UNCHANGED err
    /\ UNCHANGED <<fnVars, payload_steps, resolved, labels, stdin, cli,
                   required_modules, modules, fetched, stored, step_index,
                   expected_params, call_args, returns_by_label, payload_arguments,
                   calls, output>>

\* Mutant: the payload is printed before the argument counts are compared.
Emit_PrintsBeforeCheck ==
    /\ pc = "emit"
    /\ IF cli.emit_script_payload
       THEN \E decoded \in BOOLEAN :
              IF ~decoded
              THEN Fail([kind |-> "decode_script"]) /\ UNCHANGED output
              ELSE IF script.v.args # Len(payload_arguments)
              THEN /\ Fail([kind |-> "script_argument_count_mismatch",
                            script |-> script.v.args,
                            normalized |-> Len(payload_arguments)])
                   /\ output' = Some([type |-> "script_payload",
                                      arguments |-> payload_arguments])
              ELSE /\ output' = Some([type |-> "script_payload",
                                      arguments |-> payload_arguments])
                   /\ pc' = "done"
                   /\ UNCHANGED err
       ELSE /\ output' = Some([type |-> "hex"])
            /\ pc' = "done"
            /\ UNCHANGED err
    /\ UNCHANGED <<fnVars, payload_steps, resolved, labels, stdin, cli,
                   required_modules, modules, fetched, stored, step_index,
                   expected_params, call_args, returns_by_label, payload_arguments,
                   calls, script>>

\* Mutant: the argument counts are not compared.
Emit_NoCountCheck ==
    /\ pc = "emit"
    /\ IF cli.emit_script_payload
       THEN \E decoded \in BOOLEAN :
              IF ~decoded
              THEN Fail([kind |-> "decode_script"]) /\ UNCHANGED output
              ELSE /\ output' = Some([type |-> "script_payload",
                                      arguments |-> payload_arguments])
                   /\ pc' = "done"
                   /\ UNCHANGED err
       ELSE /\ output' = Some([type |-> "hex"])
            /\ pc' = "done"
            /\ UNCHANGED err
    /\ UNCHANGED <<fnVars, payload_steps, resolved, labels, stdin, cli,
                   required_modules, modules, fetched, stored, step_index,
                   expected_params, call_args, returns_by_label, payload_arguments,
                   calls, script>>

\* The output: the script payload JSON after the decode and the count
\* check, or the raw hex.
Emit ==
    /\ pc = "emit"
    /\ IF cli.emit_script_payload
       THEN \E decoded \in BOOLEAN :
              IF ~decoded
              THEN Fail([kind |-> "decode_script"]) /\ UNCHANGED output
              ELSE IF script.v.args # Len(payload_arguments)
              THEN /\ Fail([kind |-> "script_argument_count_mismatch",
                            script |-> script.v.args,
                            normalized |-> Len(payload_arguments)])
                   /\ UNCHANGED output
              ELSE /\ output' = Some([type |-> "script_payload",
                                      arguments |-> payload_arguments])
                   /\ pc' = "done"
                   /\ UNCHANGED err
       ELSE /\ output' = Some([type |-> "hex"])
            /\ pc' = "done"
            /\ UNCHANGED err
    /\ UNCHANGED <<fnVars, payload_steps, resolved, labels, stdin, cli,
                   required_modules, modules, fetched, stored, step_index,
                   expected_params, call_args, returns_by_label, payload_arguments,
                   calls, script>>

Next ==
    \/ ReadPayload
    \/ RunResolveSteps
    \/ CollectRequiredModules
    \/ FetchModule
    \/ BeginStep
    \/ ProcessArg
    \/ SubmitStep
    \/ GenerateBatchedCalls
    \/ Emit

Spec == Init /\ [][Next]_vars

\* Step n (counted from 1) of the resolved payload has a callee whose
\* resolved parameter list is not as long as its argument list.
CountMismatch(n) ==
    /\ n <= Len(resolved)
    /\ resolved[n].function_id.module_id \in DOMAIN modules
    /\ LET params == resolve_function_params(
                         resolved[n], modules[resolved[n].function_id.module_id])
       IN  params.ok /\ Len(params.v) # Len(resolved[n].args)

\* The argument-count-mismatch error for step n, naming both counts.
CountMismatchError(n) ==
    [kind |-> "argument_count_mismatch",
     label |-> resolved[n].label,
     expected |-> Len(resolve_function_params(
                          resolved[n],
                          modules[resolved[n].function_id.module_id]).v),
     provided |-> Len(resolved[n].args)]

(***************************************************************************)
(* C8: when the driver comes to a step whose resolved parameter list and   *)
(* argument list differ in length, the run fails there with the            *)
(* argument-count-mismatch error naming both counts; add_batched_call is   *)
(* never invoked for such a step and the driver never passes it.           *)
(***************************************************************************)
C8_CountMismatchFailsAtStep ==
    /\ [](\A n \in 1..Len(resolved) :
            CountMismatch(n) =>
                /\ Len(calls) < n
                /\ step_index < n
                /\ ~(pc = "arg_loop" /\ step_index + 1 = n))
    /\ [][(pc = "driver_loop" /\ CountMismatch(step_index + 1)) =>
             /\ pc' = "failed"
             /\ err' = Some(CountMismatchError(step_index + 1))
             /\ calls' = calls]_vars

\* The second step is the one with the mismatch: the first was submitted,
\* the second was not.
C8_Witness ==
    /\ pc = "failed"
    /\ step_index = 1
    /\ Len(calls) = 1
    /\ CountMismatch(2)
    /\ err = Some(CountMismatchError(2))
    /\ Len(resolved[2].args) = 2
    /\ err.v.expected = 1

(***************************************************************************)
(* Claims on the literal encoders (SpecEncode), continued.                 *)
(***************************************************************************)
\* A decimal integer as Display prints it: digits without leading zeros,
\* `-` only before a non-zero magnitude, no `+`, no suffix.
IsCanonicalDecimal(text) ==
    LET digits == IF text # <<>> /\ text[1] = "-" THEN Tail(text) ELSE text
    IN  /\ digits # <<>>
        /\ \A i \in 1..Len(digits) : digits[i] \in AsciiDigits
        /\ Len(digits) > 1 => digits[1] # "0"
        /\ text[1] = "-" => digits # <<"0">>

(***************************************************************************)
(* C11: whenever normalize_literal_for_script_payload succeeds for an      *)
(* integer parameter type, the result is a JSON string for the types of 64 *)
(* bits or more and a JSON number for the narrower ones, and in both cases *)
(* it holds the decimal text of the literal's value, whatever form the     *)
(* literal had.                                                            *)
(***************************************************************************)
C11_WideAsStringNarrowAsNumber ==
    (/\ pc = "encode_done"
     /\ IsIntegerType(StripReference(fn_in.expected_param))
     /\ fn_out.v.payload.ok) =>
        LET ty == IntegerType(StripReference(fn_in.expected_param))
            normalized == fn_out.v.payload.v
            text == IF normalized.t = "string" THEN normalized.s ELSE normalized.text
        IN  /\ normalized.t = IF ty[3] >= 64 THEN "string" ELSE "number"
            /\ IsCanonicalDecimal(text)
            /\ InRange(ty, text)
            /\ encode_literal(fn_in.expected_param, JString(text)) = fn_out.v.bytes

\* "007" for u32 is the JSON number 7; its bytes are those of 7.
C11_Witness ==
    /\ pc = "encode_done"
    /\ fn_in.expected_param = <<"u", "3", "2">>
    /\ fn_in.value = JString(<<"0", "0", "7">>)
    /\ fn_out.v.payload = Ok(JNumber(<<"7">>))
    /\ fn_out.v.bytes = Ok(<<7, 0, 0, 0>>)

(***************************************************************************)
(* Claims on the pipeline (Spec), continued.                               *)
(***************************************************************************)
\* The resolved parameter list of step n (counted from 1), once its module
\* is loaded.
ParamsOfStep(n) ==
    resolve_function_params(resolved[n], modules[resolved[n].function_id.module_id])

\* The driver gets as far as the argument loop of step n: its module is
\* loaded, its parameters resolve, the counts agree.
ReachesArguments(n) ==
    /\ n <= Len(resolved)
    /\ resolved[n].function_id.module_id \in DOMAIN modules
    /\ ParamsOfStep(n).ok
    /\ Len(ParamsOfStep(n).v) = Len(resolved[n].args)

\* The type `&signer`, however the text is spaced.
IsRefSigner(param) == normalize_type_name(param) = <<"&", "s", "i", "g", "n", "e", "r">>

\* Step n has an argument of the kind at a parameter that is (is not) &signer.
KindAtSigner(n, kind, at_signer) ==
    /\ ReachesArguments(n)
    /\ \E k \in 1..Len(resolved[n].args) :
          /\ resolved[n].args[k].kind = kind
          /\ IsRefSigner(ParamsOfStep(n).v[k]) = at_signer

(***************************************************************************)
(* C12: a signer argument is accepted only at a parameter of type &signer; *)
(* at any other resolved type the run fails at that step with the signer   *)
(* type error.  A literal argument at a &signer parameter fails as an      *)
(* unsupported literal type.  In both cases add_batched_call is never      *)
(* invoked for the step and the driver never passes it.                    *)
(***************************************************************************)
C12_SignerOnlyAtRefSigner ==
    /\ [](\A n \in 1..Len(resolved) :
            (KindAtSigner(n, "Signer", FALSE) \/ KindAtSigner(n, "Literal", TRUE)) =>
                Len(calls) < n /\ step_index < n)
    /\ [][(pc = "arg_loop" /\ Len(call_args) < Len(resolved[step_index + 1].args)) =>
             LET arg == resolved[step_index + 1].args[Len(call_args) + 1]
                 param == expected_params[Len(call_args) + 1]
             IN  /\ (arg.kind = "Signer" /\ ~IsRefSigner(param)) =>
                        /\ pc' = "failed"
                        /\ err'.v.kind = "signer_type_mismatch"
                        /\ err'.v.expected_param = param
                        /\ calls' = calls
                 /\ (arg.kind = "Signer" /\ IsRefSigner(param)) =>
                        /\ pc' = "arg_loop"
                        /\ call_args' = Append(call_args, SignerArgument)
                 /\ (arg.kind = "Literal" /\ IsRefSigner(param)) =>
                        /\ pc' = "failed"
                        /\ err'.v.kind = "encode_literal"
                        /\ err'.v.cause = "unsupported_literal_parameter_type"
                        /\ calls' = calls]_vars

\* A signer argument at `&mut signer`: the run failed, nothing was submitted.
C12_Witness ==
    /\ pc = "failed"
    /\ err.some
    /\ err.v.kind = "signer_type_mismatch"
    /\ err.v.expected_param = <<"&", "m", "u", "t", " ", "s", "i", "g", "n", "e", "r">>
    /\ calls = <<>>
    /\ output = None

\* The errors the driver loop and the steps after it end a run with.
DriverErrorKinds ==
    {"module_not_loaded", "function_not_found", "unresolved_generic_placeholders",
     "argument_count_mismatch", "signer_type_mismatch", "encode_literal",
     "normalize_literal", "unknown_step", "return_index_out_of_range",
     "composer_rejected", "generate", "decode_script",
     "script_argument_count_mismatch"}

\* The run has reached the driver loop.
DriverReached ==
    \/ pc \in {"driver_loop", "arg_loop", "generate", "emit", "done"}
    \/ pc = "failed" /\ err.v.kind \in DriverErrorKinds

\* The module ids the payload refers to: the module of every step's
\* function and of every struct named in its type arguments.
ReferencedModuleIds ==
    {resolved[i].function_id.module_id : i \in 1..Len(resolved)}
    \cup UNION {UNION {StructModules(TypeTag_from_str(resolved[i].type_arguments[k]).v) :
                          k \in 1..Len(resolved[i].type_arguments)} :
                  i \in 1..Len(resolved)}

NoDuplicates(seq) == \A i, j \in 1..Len(seq) : i # j => seq[i] # seq[j]
Range(seq) == {seq[i] : i \in 1..Len(seq)}

(***************************************************************************)
(* C13: no module id is ever fetched or stored twice, and in a run that    *)
(* has reached the driver every module id the payload refers to was        *)
(* fetched once and stored once, however many steps and type arguments     *)
(* refer to it.                                                            *)
(***************************************************************************)
C13_EachModuleFetchedOnce ==
    /\ NoDuplicates(fetched)
    /\ NoDuplicates(stored)
    /\ DriverReached =>
          /\ Range(fetched) = ReferencedModuleIds
          /\ Range(stored) = ReferencedModuleIds

\* Two steps calling into the same module with the same struct type
\* argument: two fetches, not four.
C13_Witness ==
    /\ pc = "done"
    /\ Len(resolved) = 2
    /\ resolved[1].type_arguments = <<TA_T0Coin>>
    /\ resolved[2].type_arguments = <<TA_T0Coin>>
    /\ Len(fetched) = 2
    /\ Len(stored) = 2

(***************************************************************************)
(* C14: add_batched_call is invoked only when every module the payload     *)
(* refers to has been fetched and stored, no fetch or store follows a      *)
(* call, and a run ended by a failed fetch or store has made no call.      *)
(***************************************************************************)
C14_ModulesBeforeDriver ==
    /\ [](/\ (DriverReached \/ calls # <<>>) =>
                /\ stored = fetched
                /\ Range(stored) = ReferencedModuleIds
          /\ (pc = "failed" /\ err.v.kind \in {"fetch_module", "store_module"}) =>
                /\ calls = <<>>
                /\ Len(stored) < Len(fetched))
    /\ [][/\ calls' # calls => Range(stored) = ReferencedModuleIds /\ stored = fetched
          /\ calls # <<>> => fetched' = fetched /\ stored' = stored
          /\ pc = "failed" => UNCHANGED vars]_vars

\* The first call was made after both modules of the payload were stored.
C14_Witness ==
    /\ pc = "driver_loop"
    /\ Len(calls) = 1
    /\ Len(resolved) = 2
    /\ stored = fetched
    /\ Len(stored) = 2

(***************************************************************************)
(* C15: output exists only in a run that has finished without error, after *)
(* every step was submitted, the script was generated and, in payload      *)
(* mode, decoded with as many arguments as payload_arguments holds; it is  *)
(* written once, and nothing happens after it.  A failed run has printed   *)
(* nothing.                                                                *)
(***************************************************************************)
C15_NoOutputBeforeError ==
    /\ [](/\ output.some =>
                /\ pc = "done"
                /\ err = None
                /\ Len(calls) = Len(resolved)
                /\ step_index = Len(resolved)
                /\ script.some
                /\ cli.emit_script_payload => script.v.args = Len(payload_arguments)
          /\ pc = "failed" => output = None /\ err.some)
    /\ [][/\ output' # output => output = None /\ pc = "emit"
          /\ output.some => UNCHANGED vars]_vars

\* Payload mode, two steps, one literal: the payload was printed at the end.
C15_Witness ==
    /\ pc = "done"
    /\ output.some
    /\ output.v.type = "script_payload"
    /\ Len(calls) = 2
    /\ Len(payload_arguments) = 1

(***************************************************************************)
(* SpecCollect: collect_required_modules on the resolved steps of every    *)
(* payload of one or two steps drawn from the catalogue below.             *)
(***************************************************************************)
F_n_g == <<"0", "x", "2", ":", ":", "n", ":", ":", "g">>

CollectTypeArguments ==
    {<<>>, <<TA_u8>>, <<TA_T0Coin>>, <<TA_Coin>>, <<TA_vector_u8>>,
     <<TA_vector_T0Coin>>, <<TA_Box_Item>>, <<TA_vector_Pair>>,
     <<TA_Box_Item, TA_Coin>>, <<TA_T1>>}

CollectStepCatalogue(label) ==
    {[label |-> label, function |-> function, type_arguments |-> type_arguments,
      args |-> <<>>] :
        function \in {F_ok, F_n_g}, type_arguments \in CollectTypeArguments}

CollectPayloads ==
    {<<s>> : s \in CollectStepCatalogue(<<"a">>)}
    \cup {<<s, t>> : s \in CollectStepCatalogue(<<"a">>),
                     t \in CollectStepCatalogue(<<"b">>)}

\* The resolved steps run hands to collect_required_modules.
CollectInputs ==
    {resolve_steps(payload).v : payload \in {p \in CollectPayloads : resolve_steps(p).ok}}

CollectInit ==
    /\ pc = "collect_start"
    /\ fn_in \in CollectInputs
    /\ fn_out = None
    /\ ResolveIdle
    /\ RunIdle

CollectModules ==
    /\ pc = "collect_start"
    /\ pc' = "collect_done"
    /\ fn_out' = Some(collect_required_modules(fn_in))
    /\ UNCHANGED <<fn_in, resolveVars, runVars>>

CollectNext == CollectModules

SpecCollect == CollectInit /\ [][CollectNext]_vars

\* The struct names written in the text of a type argument: the pieces
\* between `<`, `>`, `,` and blanks that have the shape address::module::name.
TypeTextBreaks == {"<", ">", ",", " "}

StructNamesIn(text) ==
    LET starts == {i \in 1..Len(text) :
                      /\ text[i] \notin TypeTextBreaks
                      /\ (i = 1 \/ text[i - 1] \in TypeTextBreaks)}
        EndOf(i) == CHOOSE j \in i..Len(text) :
                        /\ \A k \in i..j : text[k] \notin TypeTextBreaks
                        /\ (j = Len(text) \/ text[j + 1] \in TypeTextBreaks)
        pieces == {SplitDoubleColon(SubSeq(text, i, EndOf(i))) : i \in starts}
    IN  {p \in pieces : Len(p) = 3}

ModulesWrittenIn(steps) ==
    {steps[i].function_id.module_id : i \in 1..Len(steps)}
    \cup {[address |-> ModuleAddress_from_str(p[1]).v, name |-> p[2]] :
             p \in UNION {UNION {StructNamesIn(steps[i].type_arguments[k]) :
                                    k \in 1..Len(steps[i].type_arguments)} :
                             i \in 1..Len(steps)}}

\* C16: collect_required_modules returns exactly the module of every step's
\* function together with the module of every struct named anywhere in a
\* step's type arguments, nested generic parameters and vector elements
\* included.
C16_CollectsFunctionAndStructModules ==
    (pc = "collect_done" /\ fn_out.v.ok) =>
        fn_out.v.v = ModulesWrittenIn(fn_in)

C16_Witness ==
    /\ pc = "collect_done"
    /\ Len(fn_in) = 2
    /\ fn_in[1].type_arguments = <<TA_vector_Pair>>
    /\ fn_in[2].type_arguments = <<TA_Box_Item, TA_Coin>>
    /\ fn_in[1].function_id.module_id = MODULE_0x1_m
    /\ fn_out.v = Ok({MODULE_0x1_m,
                      [address |-> <<"3">>, name |-> <<"k">>],
                      [address |-> <<"2">>, name |-> <<"n">>],
                      [address |-> <<"1">>, name |-> <<"a", "a">>]})

\* The struct modules of a type tag in the order a pre-order traversal
\* meets them, and the modules a list of steps mentions, in the order the
\* loops of collect_required_modules meet them, each at its first mention.
RECURSIVE PreorderStructModules(_), PreorderOfTags(_, _)
PreorderStructModules(tag) ==
    IF tag.tag = "struct"
    THEN <<tag.module_id>> \o PreorderOfTags(tag.type_args, 1)
    ELSE IF tag.tag = "vector" THEN PreorderStructModules(tag.element)
    ELSE <<>>

PreorderOfTags(tags, n) ==
    IF n > Len(tags) THEN <<>>
    ELSE PreorderStructModules(tags[n]) \o PreorderOfTags(tags, n + 1)

RECURSIVE MentionsOfTypeArguments(_, _)
MentionsOfTypeArguments(type_arguments, n) ==
    IF n > Len(type_arguments) THEN <<>>
    ELSE PreorderStructModules(TypeTag_from_str(type_arguments[n]).v)
         \o MentionsOfTypeArguments(type_arguments, n + 1)

RECURSIVE MentionsOfSteps(_, _)
MentionsOfSteps(steps, n) ==
    IF n > Len(steps) THEN <<>>
    ELSE <<steps[n].function_id.module_id>>
         \o MentionsOfTypeArguments(steps[n].type_arguments, 1)
         \o MentionsOfSteps(steps, n + 1)

FirstMentions(seq) ==
    LET firsts == {i \in 1..Len(seq) : \A j \in 1..(i - 1) : seq[j] # seq[i]}
    IN  [k \in 1..Cardinality(firsts) |->
            seq[CHOOSE i \in firsts : Cardinality({j \in firsts : j < i}) = k - 1]]

DiscoveryOrder(steps) == FirstMentions(MentionsOfSteps(steps, 1))

\* C17 (as the specification states it): the required modules are fetched
\* in the order of their first discovery, a module first mentioned by an
\* earlier step or type argument before one first mentioned later.
C17_FetchedInDiscoveryOrder ==
    \A i \in 1..Len(fetched) : fetched[i] = DiscoveryOrder(resolved)[i]

\* What the code does instead: the modules are fetched in ascending order of
\* module id, whatever the order of their discovery.
C17_FetchedInAscendingOrder ==
    \A i, j \in 1..Len(fetched) : i < j => ModuleIdLess(fetched[i], fetched[j])

\* A run whose function module 0x1::m is discovered before the module
\* 0x1::aa of its type argument, and which fetches 0x1::aa first.
C17_Witness ==
    /\ Len(fetched) = 2
    /\ Len(resolved) = 1
    /\ DiscoveryOrder(resolved)
           = <<MODULE_0x1_m, [address |-> <<"1">>, name |-> <<"a", "a">>]>>
    /\ fetched = <<[address |-> <<"1">>, name |-> <<"a", "a">>], MODULE_0x1_m>>

\* The step an argument refers to: the position of the step of that label.
StepOfLabel(label) == CHOOSE p \in 1..Len(resolved) : resolved[p].label = label

\* A reference argument took the handle the engine returned at its return
\* index for the step it names.
TookReferencedHandle(arg, call_arg) ==
    arg.kind = "Ref" =>
        /\ arg.step \in DOMAIN returns_by_label
        /\ arg.return_index < Len(returns_by_label[arg.step])
        /\ call_arg = returns_by_label[arg.step][arg.return_index + 1]
        /\ call_arg = ReturnHandle(StepOfLabel(arg.step) - 1, arg.return_index)

\* C18: in the driver a Ref argument resolves to the handle at return_index
\* of the list the engine returned for the referenced step; a return_index
\* at or beyond the number of handles recorded for that step fails the run
\* at the referencing step, before add_batched_call is invoked for it, and
\* nothing is printed.
C18_RefTakesHandleOrFails ==
    /\ \A k \in 1..Len(calls) : \A j \in 1..Len(calls[k].args) :
           TookReferencedHandle(resolved[k].args[j], calls[k].args[j])
    /\ pc = "arg_loop" =>
           \A j \in 1..Len(call_args) :
               TookReferencedHandle(resolved[step_index + 1].args[j], call_args[j])
    /\ (pc = "failed" /\ err.v.kind = "return_index_out_of_range") =>
           /\ output = None
           /\ Len(calls) = step_index
           /\ err.v.label = resolved[step_index + 1].label
           /\ LET arg == resolved[step_index + 1].args[err.v.index + 1]
              IN  /\ arg.kind = "Ref"
                  /\ arg.step = err.v.ref_step
                  /\ arg.return_index = err.v.return_index
                  /\ err.v.available = Len(returns_by_label[arg.step])
                  /\ arg.return_index >= err.v.available

\* The second step refers to return value 1 of a first step for which the
\* engine returned one handle.
C18_Witness ==
    /\ pc = "failed"
    /\ err.v.kind = "return_index_out_of_range"
    /\ err.v.label = <<"b">>
    /\ err.v.ref_step = <<"a">>
    /\ err.v.return_index = 1
    /\ err.v.available = 1
    /\ Len(calls) = 1
    /\ output = None

\* The handles of the engine's call number `call` (from 0), `count` of them.
HandlesOfCall(call, count) == [i \in 1..count |-> ReturnHandle(call, i - 1)]

\* returns_by_label holds exactly the labels of the steps submitted so far,
\* each with the handles of that step's call.
ReturnsOfSubmittedSteps ==
    /\ DOMAIN returns_by_label = {resolved[k].label : k \in 1..step_index}
    /\ \A k \in 1..step_index :
           \E count \in 0..MaxReturns :
               returns_by_label[resolved[k].label] = HandlesOfCall(k - 1, count)

\* An insertion adds one key that was absent and leaves every recorded list
\* as it was.
InsertsFreshKey ==
    returns_by_label' # returns_by_label =>
        /\ resolved[step_index + 1].label \notin DOMAIN returns_by_label
        /\ DOMAIN returns_by_label'
               = DOMAIN returns_by_label \cup {resolved[step_index + 1].label}
        /\ \A label \in DOMAIN returns_by_label :
               returns_by_label'[label] = returns_by_label[label]

\* C19: every insertion into returns_by_label uses a key that is not yet
\* present, so no recorded handle list is overwritten, and once step i is
\* submitted the keys are exactly the labels of steps 0..i, each mapped to
\* the handles the engine returned for that step.
C19_ReturnsKeyedByFreshLabels ==
    []ReturnsOfSubmittedSteps /\ [][InsertsFreshKey]_vars

C19_Witness ==
    /\ step_index = 2
    /\ DOMAIN returns_by_label = {<<"a">>, <<"b">>}
    /\ returns_by_label[<<"a">>] = HandlesOfCall(0, 2)
    /\ returns_by_label[<<"b">>] = HandlesOfCall(1, 1)

\* The normalized values of the literal arguments of the steps, in step
\* order and argument order: what the driver pushes to payload_arguments.
RECURSIVE NormalizedLiterals(_, _, _)
NormalizedLiterals(args, params, n) ==
    IF n > Len(args) THEN <<>>
    ELSE (IF args[n].kind = "Literal"
          THEN <<normalize_literal_for_script_payload(params[n], args[n].value).v>>
          ELSE <<>>)
         \o NormalizedLiterals(args, params, n + 1)

RECURSIVE NormalizedLiteralsOfSteps(_)
NormalizedLiteralsOfSteps(n) ==
    IF n > Len(resolved) THEN <<>>
    ELSE LET step == resolved[n]
             params == resolve_function_params(step,
                                               modules[step.function_id.module_id]).v
         IN  NormalizedLiterals(step.args, params, 1) \o NormalizedLiteralsOfSteps(n + 1)

\* C20: in payload mode a generated script whose decoded argument count
\* differs from the number of payload_arguments entries fails the run with
\* the consistency error and no payload JSON is emitted; with equal counts
\* the emitted object's `arguments` is exactly payload_arguments, the
\* normalized literals in order.
C20_PayloadArgumentsConsistent ==
    /\ (pc = "emit" /\ script.v.args # Len(payload_arguments)) => output = None
    /\ (pc = "failed" /\ err.v.kind = "script_argument_count_mismatch") =>
           /\ cli.emit_script_payload
           /\ output = None
           /\ script.v.args # Len(payload_arguments)
           /\ err.v.script = script.v.args
           /\ err.v.normalized = Len(payload_arguments)
    /\ (pc = "done" /\ cli.emit_script_payload) =>
           /\ script.v.args = Len(payload_arguments)
           /\ output.some
           /\ output.v.type = "script_payload"
           /\ output.v.arguments = payload_arguments
           /\ output.v.arguments = NormalizedLiteralsOfSteps(1)

\* The script decodes to two arguments while one literal was normalized.
C20_Witness ==
    /\ pc = "failed"
    /\ err.v.kind = "script_argument_count_mismatch"
    /\ err.v.script = 2
    /\ err.v.normalized = 1
    /\ payload_arguments = <<JString(<<"7">>)>>
    /\ output = None

\* The errors that end a run inside the body of the driver loop.
StepErrorKinds ==
    {"module_not_loaded", "function_not_found", "unresolved_generic_placeholders",
     "argument_count_mismatch", "signer_type_mismatch", "encode_literal",
     "normalize_literal", "unknown_step", "return_index_out_of_range",
     "composer_rejected"}

FailedInStep == pc = "failed" /\ err.v.kind \in StepErrorKinds

\* The calls made so far are the steps of the payload, in order and once
\* each; every call but a rejected last one was accepted.
SubmittedInOrder ==
    /\ Len(calls) <= Len(resolved)
    /\ \A k \in 1..Len(calls) :
           /\ calls[k].module = resolved[k].function_id.module_id
           /\ calls[k].function = resolved[k].function_id.function
           /\ calls[k].ty_args = resolved[k].type_arguments
           /\ Len(calls[k].args) = Len(resolved[k].args)
    /\ Len(calls) = IF pc = "failed" /\ err.v.kind = "composer_rejected"
                    THEN step_index + 1 ELSE step_index
    /\ \A k \in 1..step_index : resolved[k].label \in DOMAIN returns_by_label

\* A failure inside a step ends the run: no script was asked of the engine
\* and nothing was printed; a script is asked for only after every step was
\* accepted.
StepFailureIsFatal ==
    /\ FailedInStep => (script = None /\ output = None /\ step_index < Len(resolved))
    /\ (script.some \/ (pc = "failed" /\ err.v.kind = "generate")) =>
           (step_index = Len(resolved) /\ Len(calls) = Len(resolved))

\* C22: the steps are submitted one at a time in payload order, each only
\* after the steps before it were accepted; once a step is rejected by the
\* engine, or one of its arguments fails to resolve or encode, nothing
\* further happens: no retry, no later step, no generate_batched_calls, no
\* output.
C22_AllOrNothing ==
    [](SubmittedInOrder /\ StepFailureIsFatal) /\ [][pc # "failed"]_vars

\* The engine accepted the first step and rejected the second.
C22_Witness ==
    /\ pc = "failed"
    /\ err.v.kind = "composer_rejected"
    /\ err.v.label = <<"b">>
    /\ Len(calls) = 2
    /\ step_index = 1
    /\ DOMAIN returns_by_label = {<<"a">>}
    /\ script = None
    /\ output = None

\* The normalized parameter type with one leading `&mut` or `&` taken off.
StripOneReference(expected_param) ==
    LET expected == normalize_type_name(expected_param)
    IN  IF StartsWith(expected, <<"&", "m", "u", "t">>)
        THEN SubSeq(expected, 5, Len(expected))
        ELSE IF StartsWith(expected, <<"&">>)
        THEN SubSeq(expected, 2, Len(expected))
        ELSE expected

\* C23 (as the specification states it): once one leading `&` or `&mut` is
\* stripped from the normalized parameter type, an `&` still present makes
\* the literal unsupported in both encoders; `&&u8` is rejected, not encoded
\* as `u8`.
C23_RemainingAmpersandRejected ==
    (/\ pc = "encode_done"
     /\ \E i \in 1..Len(StripOneReference(fn_in.expected_param)) :
            StripOneReference(fn_in.expected_param)[i] = "&") =>
        /\ ~fn_out.v.bytes.ok
        /\ ~fn_out.v.payload.ok

\* `&&u8` with the literal "1" is encoded as the u8 1.
C23_Witness ==
    /\ pc = "encode_done"
    /\ fn_in.expected_param = <<"&", "&", "u", "8">>
    /\ fn_in.value = JString(<<"1">>)
    /\ fn_out.v.bytes = Ok(<<1>>)
    /\ fn_out.v.payload = Ok(JNumber(<<"1">>))

\* C24: the two literal encoders stay in lock-step: for every parameter type
\* and every JSON literal, encode_literal succeeds exactly when
\* normalize_literal_for_script_payload succeeds, so a literal yields both
\* its bytes and its payload entry, or neither.
C24_EncodersInLockStep ==
    pc = "encode_done" => (fn_out.v.bytes.ok <=> fn_out.v.payload.ok)

\* A 0x1::string::String parameter with the literal "hi": three bytes and
\* the string itself.
C24_Witness ==
    /\ pc = "encode_done"
    /\ fn_in.expected_param = <<"0", "x", "1", ":", ":", "s", "t", "r", "i", "n", "g",
            ":", ":", "S", "t", "r", "i", "n", "g">>
    /\ fn_in.value = JString(<<"h", "i">>)
    /\ fn_out.v.bytes = Ok(<<2, 104, 105>>)
    /\ fn_out.v.payload = Ok(JString(<<"h", "i">>))

\* C25: once resolve_steps has succeeded the driver's `references unknown
\* step` failure cannot happen: whenever the driver is at a step, every
\* label its Ref arguments name is already a key of returns_by_label.
C25_UnknownStepUnreachable ==
    /\ ~(pc = "failed" /\ err.v.kind = "unknown_step")
    /\ (pc \in {"driver_loop", "arg_loop"} /\ step_index < Len(resolved)) =>
           \A j \in 1..Len(resolved[step_index + 1].args) :
               resolved[step_index + 1].args[j].kind = "Ref" =>
                   resolved[step_index + 1].args[j].step \in DOMAIN returns_by_label

\* The second step's reference to `a` was resolved against the handles of a
\* first step whose label was written ` a`.
C25_Witness ==
    /\ pc = "arg_loop"
    /\ payload_steps = SpacedLabelPayload
    /\ step_index = 1
    /\ call_args = <<ReturnHandle(0, 0)>>
    /\ DOMAIN returns_by_label = {<<"a">>}

\* C26 (as the specification states it): when the callee is in the module
\* ABI and every placeholder token of its declared parameters has an index
\* below the number of type arguments, resolve_function_params succeeds for
\* every list of well-formed type arguments, a struct named like a
\* placeholder (0x1::m::T0) included.
C26_ResolvableParamsSucceed ==
    (/\ pc = "params_done"
     /\ fn_in.step.function_id.function \in DOMAIN fn_in.module_info.functions
     /\ \A n \in 1..Len(DeclaredParams) :
            ~HasTokenBeyond(DeclaredParams[n], Len(fn_in.step.type_arguments))
     /\ \A k \in 1..Len(fn_in.step.type_arguments) :
            TypeTag_from_str(fn_in.step.type_arguments[k]).ok) =>
        fn_out.v.ok

\* The same statement for type arguments in which no struct is named like a
\* placeholder: this much the code does.
C26_SucceedsWithoutPlaceholderLikeStruct ==
    (/\ pc = "params_done"
     /\ fn_in.step.function_id.function \in DOMAIN fn_in.module_info.functions
     /\ \A n \in 1..Len(DeclaredParams) :
            ~HasTokenBeyond(DeclaredParams[n], Len(fn_in.step.type_arguments))
     /\ \A k \in 1..Len(fn_in.step.type_arguments) :
            /\ TypeTag_from_str(fn_in.step.type_arguments[k]).ok
            /\ ~HasToken(fn_in.step.type_arguments[k])) =>
        fn_out.v.ok

\* The parameter T0 with the type argument 0x1::m::T0 is refused.
C26_Witness ==
    /\ pc = "params_done"
    /\ fn_in.step.function_id.function = FN_f
    /\ DeclaredParams = <<P_T0>>
    /\ fn_in.step.type_arguments = <<TA_T0>>
    /\ ~fn_out.v.ok
    /\ fn_out.v.e.kind = "unresolved_generic_placeholders"

\* The number of literal-kind arguments in a list of arguments.
LiteralCount(args) == Cardinality({j \in 1..Len(args) : args[j].kind = "Literal"})

RECURSIVE LiteralCountOfSteps(_)
LiteralCountOfSteps(n) ==
    IF n > Len(resolved) THEN 0
    ELSE LiteralCount(resolved[n].args) + LiteralCountOfSteps(n + 1)

\* The normalized literals of the steps before step n (from 1).
RECURSIVE NormalizedLiteralsBefore(_)
NormalizedLiteralsBefore(n) ==
    IF n <= 1 THEN <<>>
    ELSE LET step == resolved[n - 1]
             params == resolve_function_params(step,
                                               modules[step.function_id.module_id]).v
         IN  NormalizedLiteralsBefore(n - 1) \o NormalizedLiterals(step.args, params, 1)

\* The entries the arguments processed so far call for: those of the steps
\* submitted and, inside the argument loop, those of the arguments of the
\* current step already turned into call arguments.
EntriesOfProcessedArguments ==
    NormalizedLiteralsBefore(step_index + 1)
    \o (IF pc = "arg_loop"
        THEN NormalizedLiterals(SubSeq(resolved[step_index + 1].args, 1, Len(call_args)),
                                expected_params, 1)
        ELSE <<>>)

\* generate_batched_calls is about to be called or was called.
GenerateReached ==
    \/ pc \in {"generate", "emit", "done"}
    \/ pc = "failed" /\ err.v.kind \in {"generate", "decode_script",
                                        "script_argument_count_mismatch"}

C28_NormalizedLiteralRoundTrips ==
    pc = "encode_again_done" =>
        /\ fn_out.v.bytes.ok
        /\ fn_out.v.bytes_again = fn_out.v.bytes
        /\ fn_out.v.payload_again = fn_out.v.payload

\* vector<u8> with [1, 2]: normalized to "0x0102", which encodes to the
\* same three bytes.
C28_Witness ==
    /\ pc = "encode_again_done"
    /\ fn_in.expected_param = <<"v", "e", "c", "t", "o", "r", "<", "u", "8", ">">>
    /\ fn_in.value = JArray(<<JNumber(<<"1">>), JNumber(<<"2">>)>>)
    /\ fn_out.v.payload = Ok(JString(<<"0", "x", "0", "1", "0", "2">>))
    /\ fn_out.v.bytes = Ok(<<2, 1, 2>>)
    /\ fn_out.v.bytes_again = Ok(<<2, 1, 2>>)

\* C29: an empty top-level array passes parse_steps_payload and is rejected
\* by resolve_steps: the run ends there, before any module is fetched or
\* stored, before the engine is called, and without output.
C29_EmptyPayloadRejectedByResolve ==
    stdin = Ok(JArray(<<>>)) =>
        /\ pc \in {"read_payload", "resolve_steps", "failed"}
        /\ pc = "failed" => err.v.kind = "no_steps"
        /\ payload_steps = <<>>
        /\ resolved = <<>>
        /\ required_modules = <<>>
        /\ fetched = <<>> /\ stored = <<>>
        /\ calls = <<>>
        /\ script = None
        /\ output = None

\* The run on `[]` after resolve_steps has refused it.
C29_Witness ==
    /\ stdin = Ok(JArray(<<>>))
    /\ parse_steps_payload(stdin.v) = Ok(<<>>)
    /\ pc = "failed"
    /\ err.v.kind = "no_steps"
    /\ fetched = <<>>
    /\ output = None

\* The text of a numeric literal: a string without its surrounding blanks
\* and without one trailing `n`, or the text of a JSON number.
NumericText(value) ==
    IF value.t = "string"
    THEN LET trimmed == Trim(value.s)
         IN  IF EndsWith(trimmed, <<"n">>) THEN SubSeq(trimmed, 1, Len(trimmed) - 1)
             ELSE trimmed
    ELSE IF value.t = "number" THEN value.text
    ELSE <<>>

\* The text is an integer in decimal: an optional sign and digits.
IsDecimalInteger(text) ==
    LET digits == IF text # <<>> /\ text[1] \in {"+", "-"} THEN Tail(text) ELSE text
    IN  digits # <<>> /\ \A i \in 1..Len(digits) : digits[i] \in AsciiDigits

\* The integer a decimal text denotes, written without `+`, without leading
\* zeros and without a sign on zero.
DenotedInteger(text) ==
    LET signed == text[1] \in {"+", "-"}
        mag == StripLeadingZeros(IF signed THEN Tail(text) ELSE text)
    IN  IF text[1] = "-" /\ mag # <<"0">> THEN <<"-">> \o mag ELSE mag

\* The little-endian two's complement bytes of a value of a type of at most
\* 16 bits, computed on the number itself.
SmallBytes(v, bits) ==
    LET magnitude == DecimalValue(IF v[1] = "-" THEN Tail(v) ELSE v)
        unsigned == IF v[1] = "-" THEN 2 ^ bits - magnitude ELSE magnitude
    IN  [i \in 1..(bits \div 8) |-> (unsigned \div (256 ^ (i - 1))) % 256]

IntegerTypeEncoded == IntegerType(StripReference(fn_in.expected_param))

\* C30: for every integer parameter type a numeric literal is encoded only
\* if it is an integer of the type's range, and then to the bytes of that
\* very value; a value outside the range (a negative one for an unsigned
\* type included), a number that is not an integer, and an empty or blank
\* string are rejected by both encoders, never wrapped or truncated.
C30_OnlyInRangeIntegersEncode ==
    (pc = "encode_done" /\ IsIntegerType(StripReference(fn_in.expected_param))) =>
        LET text == NumericText(fn_in.value)
            in_range == /\ fn_in.value.t \in {"string", "number"}
                        /\ IsDecimalInteger(text)
                        /\ InRange(IntegerTypeEncoded, DenotedInteger(text))
        IN  /\ fn_out.v.bytes.ok => in_range
            /\ fn_out.v.payload.ok => in_range
            /\ (fn_out.v.bytes.ok /\ IntegerTypeEncoded[3] <= 16) =>
                   fn_out.v.bytes.v
                       = SmallBytes(DenotedInteger(text), IntegerTypeEncoded[3])

\* 256 for u8 is rejected; it is not encoded as the byte 0.
C30_Witness ==
    /\ pc = "encode_done"
    /\ fn_in.expected_param = <<"u", "8">>
    /\ fn_in.value = JString(<<"2", "5", "6">>)
    /\ ~fn_out.v.bytes.ok
    /\ ~fn_out.v.payload.ok
    /\ encode_literal(<<"i", "8">>, JString(<<"-", "1", "2", "8">>)) = Ok(<<128>>)
    /\ ~encode_literal(<<"i", "8">>, JString(<<"1", "2", "8">>)).ok
    /\ ~encode_literal(<<"u", "8">>, JString(<<"-", "1">>)).ok

====
